---- MODULE Spec2Model ----
(***************************************************************************)
(* A state-machine model of the DGT-ZK confidential transaction ledger:    *)
(* the in-memory TransactionEmulator, the LMDB-backed LedgerDB and         *)
(* NotaryDB, the TransactionFlow orchestrator with the main() flow, and    *)
(* the compliance screening functions.                                     *)
(*                                                                         *)
(* Modelling conventions.                                                  *)
(*  - A content hash (sha256 over json.dumps(.., sort_keys=True)) is the   *)
(*    injective tagging <<"sha256", x>>: equal inputs, equal digests, and  *)
(*    no collisions.  TLA+ records carry no field order, as sort_keys.     *)
(*  - Python dicts are records; a dict that is shared by reference lives   *)
(*    in heap and is referred to by its index.                             *)
(*  - An operation that raises leaves the name of the exception as its     *)
(*    result in last.                                                      *)
(*  - Time is in whole seconds.                                            *)
(***************************************************************************)
EXTENDS Integers, Sequences, FiniteSets, TLC

\* ------------------------------------------------------------------ bounds
MaxTime == 180
TimeStep == 60
MaxObj == 2
MaxSaves == 2
NumThreads == 2
MaxLen == 2
MaxRange == 2

\* ------------------------------------------------------- program constants
EmulatorCancellationWindow == 120
COMPLIANCE_LEVEL_BASIC == 1
COMPLIANCE_LEVEL_ADVANCED == 2
MAX_TRANSACTION_AMOUNT == 1000000
MinuteSeconds == 60

None == "None"

TxFamilies == {"financial_tx", "notary_tx"}
Senders == {"S"}
Recipients == {"R"}
Amounts == {100}
PrivateKeys == {"k1"}

VARIABLES
    now,             \* the clock read by time.time() / datetime.utcnow()
    last,            \* the last operation, its argument and what it returned or raised
    heap,            \* the transaction dicts created so far, by reference
    ledger_storage,  \* TransactionEmulator.ledger_storage: tx_id -> reference
    notary_storage,  \* TransactionEmulator.notary_storage: tx_id -> reference
    cancelled,       \* history: tx ids whose anchor a cancel has removed
    expired,         \* history: tx ids whose anchor has outlived its window
    scheme_type,     \* ComplianceVerification.scheme_type
    compliance_level,\* ComplianceVerification.compliance_level
    blacklist_db,    \* the address entries of the blacklist store
    whitelist_db,    \* the address entries of the whitelist store
    point_sub,       \* whether the curve points of the ecdsa library in use support "-"
    ledger_db,       \* the LMDB store of LedgerDB: key -> record
    save_ok,         \* history: key -> saves that returned since the key was last absent
    save_calls,      \* history: bodies the orchestrator handed to save_transaction
    screened,        \* history: transactions a compliance screen has passed
    notary_db,       \* the LMDB store of NotaryDB: record id -> record
    pc,              \* concurrent callers: where each one is in its call
    loc,             \* concurrent callers: the locals of each one
    write_lock       \* the writer mutex of the LMDB environment: 0, or its holder

emuVars == <<heap, ledger_storage, notary_storage, cancelled, expired>>

cmpVars == <<scheme_type, compliance_level, blacklist_db, whitelist_db, point_sub>>

ldbVars == <<ledger_db, save_ok, save_calls, screened>>

ndbVars == <<notary_db>>

thrVars == <<pc, loc, write_lock>>

nonEmuVars == <<cmpVars, ldbVars, ndbVars, thrVars>>

vars == <<now, last, emuVars, cmpVars, ldbVars, ndbVars, thrVars>>

\* ----------------------------------------------------------------- helpers
sha256_json(x) == <<"sha256", x>>

Header(sender, recipient, amount) ==
    [sender |-> sender, recipient |-> recipient, timestamp |-> now, amount |-> amount]

encrypt_transaction_amount(amount, recipient) == <<"enc", amount, recipient>>

create_pedersen_commitment(amount, private_key) == <<"commit", amount, private_key>>

sign_transaction(tx, private_key) == <<"sig", tx, private_key>>

\* dict d with d[k] = v assigned
SetItem(d, k, v) == (k :> v) @@ d

\* dict d with del d[k]
DelItem(d, k) == [x \in (DOMAIN d) \ {k} |-> d[x]]

EmptyDict == [x \in {} |-> None]

\* ------------------------------------------------------ TransactionEmulator
EmulatorBody(tx_family, sender, recipient, amount, private_key) ==
    LET header == Header(sender, recipient, amount)
    IN  [tx_id |-> sha256_json(header),
         header |-> header,
         encrypted_amount |-> encrypt_transaction_amount(amount, recipient),
         commitment |-> create_pedersen_commitment(amount, private_key),
         tx_family |-> tx_family]

create_transaction(tx_family, sender, recipient, amount, private_key) ==
    LET body == EmulatorBody(tx_family, sender, recipient, amount, private_key)
        transaction == SetItem(body, "signature", sign_transaction(body, private_key))
        ref == Len(heap) + 1
    IN  /\ Len(heap) < MaxObj
        /\ heap' = Append(heap, transaction)
        /\ ledger_storage' = SetItem(ledger_storage, body.tx_id, ref)
        /\ last' = [op |-> "create_transaction", arg |-> body.tx_id, result |-> "stored"]
        /\ UNCHANGED <<now, notary_storage, cancelled, expired, nonEmuVars>>

anchor_transaction(ref) ==
    LET tx == heap[ref]
        tx_id == tx["tx_id"]
    IN  /\ heap' = [heap EXCEPT ![ref] = SetItem(tx, "anchored", now)]
        /\ notary_storage' = SetItem(notary_storage, tx_id, ref)
        /\ last' = [op |-> "anchor_transaction", arg |-> tx_id, result |-> "anchored"]
        /\ UNCHANGED <<now, ledger_storage, cancelled, expired, nonEmuVars>>

\* anchor_transaction(tx) for a dict the caller built itself: the object is not
\* one of those create_transaction put into ledger_storage
CallerTxs ==
    {SetItem(EmulatorBody(f, "C", "R", 100, "k1"), "signature", "sample_signature") :
        f \in TxFamilies}

anchor_caller_transaction(tx) ==
    LET ref == Len(heap) + 1
        tx_id == tx["tx_id"]
    IN  /\ Len(heap) < MaxObj
        /\ heap' = Append(heap, SetItem(tx, "anchored", now))
        /\ notary_storage' = SetItem(notary_storage, tx_id, ref)
        /\ last' = [op |-> "anchor_transaction", arg |-> tx_id, result |-> "anchored"]
        /\ UNCHANGED <<now, ledger_storage, cancelled, expired, nonEmuVars>>

PublicKey(private_key) == <<"pub", private_key>>

\* public_key_obj.verify(signature, keccak(str(tx))): the signature was made over
\* this very message with the key that public_key belongs to
verify_signature(tx, public_key, signature) ==
    /\ signature[2] = tx
    /\ PublicKey(signature[3]) = public_key

\* Signature strings that no sign_transaction call returns: one that is not
\* hexadecimal, a hexadecimal one of the wrong length, the empty string.
NotHex == <<"nothex">>
WrongLength == <<"wronglength">>
EmptySignature == <<>>

\* a call of verify_signature with the positional arguments args.
\* bytes.fromhex(signature) raises ValueError on a string that is not
\* hexadecimal; VerifyingKey.verify raises BadSignatureError, which is caught,
\* on bytes of the wrong length (the empty string included) and on a signature
\* that does not match.
VerifySignatureCall(args) ==
    IF Len(args) # 3 THEN "TypeError"
    ELSE IF args[3] = NotHex THEN "ValueError"
    ELSE IF Len(args[3]) < 3 THEN "False"
    ELSE IF verify_signature(args[1], args[2], args[3]) THEN "True"
    ELSE "False"

\* TransactionEmulator.validate_transaction: verify_signature is called with the
\* transaction and the public key; verify_commitment is a placeholder that
\* returns True
validate_transaction(ref, public_key) ==
    LET tx == heap[ref]
        checked == VerifySignatureCall(<<tx, public_key>>)
    IN  /\ last' = [op |-> "validate_transaction", arg |-> tx["tx_id"], result |-> checked]
        /\ UNCHANGED <<now, heap, ledger_storage, notary_storage, cancelled, expired, nonEmuVars>>

\* time.time() - tx["anchored"] > self.cancellation_window, at time t
OutsideWindow(tx_id, t) ==
    t - heap[notary_storage[tx_id]]["anchored"] > EmulatorCancellationWindow

CancelAllowed_strict(tx_id) ==
    /\ tx_id \in DOMAIN notary_storage
    /\ now - heap[notary_storage[tx_id]]["anchored"] < EmulatorCancellationWindow

\* not (not tx or outside the window)
CancelAllowed(tx_id) ==
    /\ tx_id \in DOMAIN notary_storage
    /\ ~OutsideWindow(tx_id, now)

cancel_transaction_drops_ledger(tx_id) ==
    IF ~CancelAllowed(tx_id)
    THEN /\ last' = [op |-> "cancel_transaction", arg |-> tx_id, result |-> "False"]
         /\ UNCHANGED <<now, emuVars, nonEmuVars>>
    ELSE /\ notary_storage' = DelItem(notary_storage, tx_id)
         /\ ledger_storage' = DelItem(ledger_storage, tx_id)
         /\ cancelled' = cancelled \cup {tx_id}
         /\ last' = [op |-> "cancel_transaction", arg |-> tx_id, result |-> "True"]
         /\ UNCHANGED <<now, heap, expired, nonEmuVars>>

cancel_transaction(tx_id) ==
    IF ~CancelAllowed(tx_id)
    THEN /\ last' = [op |-> "cancel_transaction", arg |-> tx_id, result |-> "False"]
         /\ UNCHANGED <<now, emuVars, nonEmuVars>>
    ELSE /\ notary_storage' = DelItem(notary_storage, tx_id)
         /\ cancelled' = cancelled \cup {tx_id}
         /\ last' = [op |-> "cancel_transaction", arg |-> tx_id, result |-> "True"]
         /\ UNCHANGED <<now, heap, ledger_storage, expired, nonEmuVars>>

list_ledger_transactions == {heap[ledger_storage[k]] : k \in DOMAIN ledger_storage}

list_notary_anchors == {heap[notary_storage[k]] : k \in DOMAIN notary_storage}

Tick ==
    /\ now + TimeStep <= MaxTime
    /\ now' = now + TimeStep
    /\ expired' = expired \cup {k \in DOMAIN notary_storage : OutsideWindow(k, now')}
    /\ UNCHANGED <<heap, ledger_storage, notary_storage, cancelled, last, nonEmuVars>>

\* the tx ids a caller can name: those of the transactions created, and one of none
UnknownTxId ==
    sha256_json([sender |-> "nobody", recipient |-> "nobody", timestamp |-> 0, amount |-> 0])
KnownTxIds == {heap[r]["tx_id"] : r \in 1..Len(heap)} \cup {UnknownTxId}

EmulatorIdle ==
    /\ heap = <<>>
    /\ ledger_storage = EmptyDict
    /\ notary_storage = EmptyDict
    /\ cancelled = {}
    /\ expired = {}

ComplianceIdle ==
    /\ scheme_type = "schnorr"
    /\ compliance_level = COMPLIANCE_LEVEL_BASIC
    /\ blacklist_db = {}
    /\ whitelist_db = {}
    /\ point_sub = TRUE

LedgerIdle ==
    /\ ledger_db = EmptyDict
    /\ save_ok = EmptyDict
    /\ save_calls = {}
    /\ screened = {}

NotaryIdle == notary_db = EmptyDict

ThreadsIdle ==
    /\ pc = <<>>
    /\ loc = <<>>
    /\ write_lock = 0

EmulatorInit ==
    /\ now = 0
    /\ EmulatorIdle
    /\ ComplianceIdle
    /\ LedgerIdle
    /\ NotaryIdle
    /\ ThreadsIdle
    /\ last = [op |-> "init", arg |-> UnknownTxId, result |-> "None"]

EmulatorCreate ==
    \E f \in TxFamilies, s \in Senders, r \in Recipients, a \in Amounts, k \in PrivateKeys :
        create_transaction(f, s, r, a, k)

EmulatorAnchor == \E ref \in 1..Len(heap) : anchor_transaction(ref)

EmulatorAnchorCaller == \E tx \in CallerTxs : anchor_caller_transaction(tx)

EmulatorCancel == \E tx_id \in KnownTxIds : cancel_transaction(tx_id)

EmulatorValidate ==
    \E ref \in 1..Len(heap), k \in PrivateKeys : validate_transaction(ref, PublicKey(k))

EmulatorNext ==
    \/ Tick \/ EmulatorCreate \/ EmulatorAnchor \/ EmulatorAnchorCaller
    \/ EmulatorCancel \/ EmulatorValidate

SpecEmulator == EmulatorInit /\ [][EmulatorNext]_vars

\* ------------------------------------------------------------- compliance
\* The addresses of the hardcoded lists, and one on neither list.
get_blacklist_addresses == {"0xBlacklistedAddress1", "0xBlacklistedAddress2"}

get_whitelist_addresses == {"0xWhitelistedAddress1", "0xWhitelistedAddress2"}

Addresses == {"0xBlacklistedAddress1", "0xWhitelistedAddress1", "0xOther"}

\* An item of an address set is the address string itself, <<"raw", a>>, or the
\* address encrypted by PSIScheme.encrypt_set.  call names the encrypt_set call that
\* produced a ciphertext: every call draws fresh randomness (the Paillier
\* obfuscator, the Schnorr nonce k), so ciphertexts of different calls differ.
Raw(a) == [kind |-> "raw", addr |-> a]

\* str(x) of an address string; str(r) of the integer r of a signature is the
\* decimal numeral of r, written as r itself: it is no address string
StrOfAddress(a) == <<"addr", "", a>>

\* schnorr_sign(message, key) with the nonce drawn: r = (k*G).x, s = k + e*x where
\* e = H(r, message); s is determined by r, the message and the instance's key
schnorr_sign(message, nonce) == [kind |-> "pair", r |-> nonce, s |-> <<nonce, message>>]

\* (s*G - e*P).x == r with e = H(r, message): holds exactly when s answers the
\* challenge for this r and this message
schnorr_verify(message, r, s) == s = <<r, message>>

\* PaillierPublicKey.encrypt of a number: a fresh ciphertext object
paillier_encrypt(item, call) == [kind |-> "paillier", addr |-> item, call |-> call]

\* the items that are int values, written as their numerals
Numbers == {"17", "42"}

\* PaillierPublicKey.encrypt encodes int and float values only: for any other item,
\* such as an address string, it raises TypeError
EncryptSetRaises(scheme, data_set) ==
    scheme = "paillier" /\ \E item \in data_set : item \notin Numbers

encrypt_item(scheme, item, call) ==
    IF scheme = "paillier"
    THEN paillier_encrypt(item, call)
    ELSE schnorr_sign(StrOfAddress(item), <<"int", call, item>>)

\* encrypt_set of a list whose order does not matter to its reader
encrypt_set(scheme, data_set, call) == {encrypt_item(scheme, item, call) : item \in data_set}

\* encrypt_set of a list, in order
encrypt_list(scheme, data_list, call) ==
    [i \in DOMAIN data_list |-> encrypt_item(scheme, data_list[i], call)]

\* r, s = item raises ValueError unless item unpacks into two values
UnpackRaises(item) == item.kind # "pair"

\* what verify_item raises: ValueError from the unpacking, or TypeError from the
\* sG - eP of the first schnorr_verify call where the points have no subtraction
VerifyItemRaised(item, reference_set) ==
    IF UnpackRaises(item) THEN "ValueError"
    ELSE IF reference_set # {} /\ ~point_sub THEN "TypeError"
    ELSE "None"

verify_item(item, reference_set) ==
    LET r == item.r
    IN  \E ref \in reference_set : schnorr_verify(r, ref.r, ref.s)

\* the exception of the first item of the list that raises one, or "None"
ComputeIntersectionRaised(scheme, encrypted_list, reference_set) ==
    LET raising == {i \in DOMAIN encrypted_list :
                       VerifyItemRaised(encrypted_list[i], reference_set) # "None"}
        first == CHOOSE i \in raising : \A k \in raising : i <= k
    IN  IF scheme = "paillier" \/ raising = {} THEN "None"
        ELSE VerifyItemRaised(encrypted_list[first], reference_set)

\* item in reference_set compares Paillier ciphertexts as objects: EncryptedNumber
\* defines no equality
compute_intersection(scheme, encrypted_list, reference_set) ==
    LET matches(item) ==
            IF scheme = "paillier" THEN \E ref \in reference_set : ref = item
            ELSE verify_item(item, reference_set)
    IN  SelectSeq(encrypted_list, matches)

\* ComplianceVerification.check_compliance: the report, or the exception raised
check_compliance(address_set) ==
    LET blacklist == encrypt_set(scheme_type, blacklist_db, "blacklist")
        whitelist == encrypt_set(scheme_type, whitelist_db, "whitelist")
        blacklist_raised == ComputeIntersectionRaised(scheme_type, address_set, blacklist)
        whitelist_raised == ComputeIntersectionRaised(scheme_type, address_set, whitelist)
        blacklist_matches == compute_intersection(scheme_type, address_set, blacklist)
        whitelist_matches == compute_intersection(scheme_type, address_set, whitelist)
    IN  IF \/ EncryptSetRaises(scheme_type, blacklist_db)
           \/ EncryptSetRaises(scheme_type, whitelist_db)
        THEN [raised |-> "TypeError"]
        ELSE IF blacklist_raised # "None" THEN [raised |-> blacklist_raised]
        ELSE IF whitelist_raised # "None" THEN [raised |-> whitelist_raised]
        ELSE [raised |-> "None",
              blacklist_matches |-> blacklist_matches,
              whitelist_matches |-> whitelist_matches,
              compliance_status |-> IF blacklist_matches = <<>> THEN "Compliant"
                                    ELSE "Non-compliant",
              details |-> compliance_level = COMPLIANCE_LEVEL_ADVANCED]

\* ComplianceVerification.verify_transaction: "True", "False" or the exception
verify_transaction(tx) ==
    IF ~({"sender", "recipient"} \subseteq DOMAIN tx)
    THEN "KeyError"
    ELSE LET compliance_report == check_compliance(<<tx["sender"], tx["recipient"]>>)
         IN  IF compliance_report.raised # "None" THEN compliance_report.raised
             ELSE IF compliance_report.compliance_status = "Compliant" THEN "True"
             ELSE "False"

validate_tx_structure(tx) ==
    {"sender", "recipient", "timestamp", "amount", "signature"} \subseteq DOMAIN tx

\* transactions/transaction_anchor.py
anchor_compliance_check(tx, level) ==
    IF ~validate_tx_structure(tx) THEN "False"
    ELSE IF level >= COMPLIANCE_LEVEL_BASIC
            /\ (tx["amount"] <= 0 \/ tx["amount"] > MAX_TRANSACTION_AMOUNT) THEN "False"
    ELSE IF level >= COMPLIANCE_LEVEL_ADVANCED
            /\ tx["recipient"] \in {Raw(a) : a \in get_blacklist_addresses} THEN "False"
    ELSE "True"

is_blacklisted(address) == address \in {Raw(a) : a \in get_blacklist_addresses}

is_whitelisted(address) == address \in {Raw(a) : a \in get_whitelist_addresses}

\* the PSI check of one address against the two stores: no blacklist match and,
\* whitelisting being mandatory at this level, a whitelist match
perform_psi_check(address) ==
    /\ address \notin {Raw(a) : a \in blacklist_db}
    /\ address \in {Raw(a) : a \in whitelist_db}

\* verification/transaction_verification.py
compliance_check(tx, level) ==
    IF ~validate_tx_structure(tx) THEN "False"
    ELSE IF level >= COMPLIANCE_LEVEL_BASIC
            /\ ~(0 < tx["amount"] /\ tx["amount"] <= MAX_TRANSACTION_AMOUNT) THEN "False"
    ELSE IF level >= COMPLIANCE_LEVEL_ADVANCED
            /\ ~(is_whitelisted(tx["recipient"]) /\ ~is_blacklisted(tx["recipient"]))
         THEN "False"
    ELSE IF level >= COMPLIANCE_LEVEL_ADVANCED /\ ~perform_psi_check(tx["recipient"])
         THEN "False"
    ELSE "True"

\* the transactions handed to the screens: flat dicts whose sender and recipient are
\* address strings or addresses encrypted by the caller with the instance's scheme
ScreenItems(scheme) ==
    {Raw(a) : a \in Addresses}
        \cup (IF EncryptSetRaises(scheme, Addresses) THEN {}
              ELSE encrypt_set(scheme, Addresses, "caller"))

ScreenTxs(scheme) ==
    [sender : ScreenItems(scheme), recipient : ScreenItems(scheme),
     timestamp : {0}, amount : {100}, signature : {"sample_signature"}]

PlainTxs ==
    [sender : {Raw(a) : a \in Addresses}, recipient : {Raw(a) : a \in Addresses},
     timestamp : {0}, amount : {0, 100}, signature : {"sample_signature"}]

\* the address an item stands for
Plaintext(item) == IF item.kind = "pair" THEN item.r[3] ELSE item.addr

ComplianceInit ==
    /\ now = 0
    /\ EmulatorIdle
    /\ LedgerIdle
    /\ NotaryIdle
    /\ ThreadsIdle
    /\ scheme_type \in {"paillier", "schnorr"}
    /\ compliance_level \in {COMPLIANCE_LEVEL_BASIC, COMPLIANCE_LEVEL_ADVANCED}
    /\ blacklist_db \in SUBSET {"0xBlacklistedAddress1", "0xOther"}
    /\ whitelist_db \in SUBSET {"0xWhitelistedAddress1", "0xOther"}
    /\ point_sub \in BOOLEAN
    /\ last = [op |-> "init", arg |-> None, level |-> 0, result |-> "None"]

VerifyTransaction ==
    /\ \E tx \in ScreenTxs(scheme_type) :
          last' = [op |-> "verify_transaction", arg |-> tx, level |-> compliance_level,
                   result |-> verify_transaction(tx)]
    /\ UNCHANGED <<now, emuVars, cmpVars, ldbVars, ndbVars, thrVars>>

AnchorComplianceCheck ==
    /\ \E tx \in PlainTxs, level \in {COMPLIANCE_LEVEL_BASIC, COMPLIANCE_LEVEL_ADVANCED} :
          last' = [op |-> "anchor_compliance_check", arg |-> tx, level |-> level,
                   result |-> anchor_compliance_check(tx, level)]
    /\ UNCHANGED <<now, emuVars, cmpVars, ldbVars, ndbVars, thrVars>>

ComplianceCheck ==
    /\ \E tx \in PlainTxs, level \in {COMPLIANCE_LEVEL_BASIC, COMPLIANCE_LEVEL_ADVANCED} :
          last' = [op |-> "compliance_check", arg |-> tx, level |-> level,
                   result |-> compliance_check(tx, level)]
    /\ UNCHANGED <<now, emuVars, cmpVars, ldbVars, ndbVars, thrVars>>

ComplianceNext == VerifyTransaction \/ AnchorComplianceCheck \/ ComplianceCheck

SpecCompliance == ComplianceInit /\ [][ComplianceNext]_vars

\* --------------------------------------------------------------- PSIScheme
Range(f) == {f[i] : i \in DOMAIN f}

\* the items of the lists handed to encrypt_set: an address string and two numbers
PsiItems == {"0xOther"} \cup Numbers

\* the lists without repetition of at most MaxLen items
PsiLists ==
    {l \in UNION {[1..n -> PsiItems] : n \in 0..MaxLen} :
        \A i \in DOMAIN l, k \in DOMAIN l : l[i] = l[k] => i = k}

\* compute_intersection(encrypt_set(A), encrypt_set(B)) on one PSIScheme instance
psi_intersection(A, B) ==
    LET encrypted == encrypt_list(scheme_type, A, "A")
        reference == encrypt_set(scheme_type, Range(B), "B")
        raised == ComputeIntersectionRaised(scheme_type, encrypted, reference)
    IN  IF \/ EncryptSetRaises(scheme_type, Range(A))
           \/ EncryptSetRaises(scheme_type, Range(B))
        THEN [raised |-> "TypeError", matches |-> <<>>]
        ELSE IF raised # "None" THEN [raised |-> raised, matches |-> <<>>]
        ELSE [raised |-> "None",
              matches |-> compute_intersection(scheme_type, encrypted, reference)]

PsiInit ==
    /\ now = 0
    /\ EmulatorIdle
    /\ LedgerIdle
    /\ NotaryIdle
    /\ ThreadsIdle
    /\ scheme_type \in {"paillier", "schnorr"}
    /\ compliance_level = COMPLIANCE_LEVEL_BASIC
    /\ blacklist_db = {}
    /\ whitelist_db = {}
    /\ point_sub \in BOOLEAN
    /\ last = [op |-> "init", a |-> <<>>, b |-> <<>>, raised |-> "None", matches |-> <<>>]

PsiIntersect ==
    /\ \E A \in PsiLists, B \in PsiLists :
          last' = [op |-> "compute_intersection", a |-> A, b |-> B,
                   raised |-> psi_intersection(A, B).raised,
                   matches |-> psi_intersection(A, B).matches]
    /\ UNCHANGED <<now, emuVars, cmpVars, ldbVars, ndbVars, thrVars>>

PsiNext == PsiIntersect

SpecPSI == PsiInit /\ [][PsiNext]_vars

\* ------------------------------------------------- LedgerDB, TransactionFlow
\* the flat transaction dicts of save_transaction's contract
LedgerTxs ==
    [TX_FAMILY : TxFamilies, sender : Senders, recipient : Recipients,
     amount : Amounts, signature : {"sample_signature"}]

generate_tx_id(tx) == sha256_json(tx)

\* f"{tx_family}_{tx_id}"
ledger_key(tx_family, tx_id) == <<tx_family, tx_id>>

\* tx['TX_FAMILY'] raises KeyError on a dict without that key
SaveRaises(tx) == "TX_FAMILY" \notin DOMAIN tx

SaveKey(tx) == ledger_key(tx["TX_FAMILY"], generate_tx_id(tx))

SavedCount(key) == IF key \in DOMAIN save_ok THEN save_ok[key] ELSE 0

\* txn.put(tx_key, json.dumps(tx).encode()): py-lmdb's put replaces the value of a
\* key that is present (overwrite=True is the default)
LedgerPut(db, key, tx) == SetItem(db, key, tx)

\* the store, the success count and the outcome after save_transaction(tx)
LedgerAfterSave(tx) ==
    IF SaveRaises(tx) THEN ledger_db ELSE LedgerPut(ledger_db, SaveKey(tx), tx)

SaveOkAfterSave(tx) ==
    IF SaveRaises(tx) THEN save_ok
    ELSE SetItem(save_ok, SaveKey(tx), SavedCount(SaveKey(tx)) + 1)

SaveResult(tx) == IF SaveRaises(tx) THEN "KeyError" ELSE "None"

save_transaction(tx) ==
    /\ SaveRaises(tx) \/ SavedCount(SaveKey(tx)) < MaxSaves
    /\ ledger_db' = LedgerAfterSave(tx)
    /\ save_ok' = SaveOkAfterSave(tx)
    /\ last' = [op |-> "save_transaction", arg |-> tx, result |-> SaveResult(tx)]
    /\ UNCHANGED <<now, save_calls, screened, emuVars, cmpVars, ndbVars, thrVars>>

get_transaction(tx_id, tx_family) ==
    IF ledger_key(tx_family, tx_id) \in DOMAIN ledger_db
    THEN ledger_db[ledger_key(tx_family, tx_id)]
    ELSE None

delete_transaction(tx_id, tx_family) ==
    LET tx_key == ledger_key(tx_family, tx_id)
    IN  /\ ledger_db' = DelItem(ledger_db, tx_key)
        /\ save_ok' = DelItem(save_ok, tx_key)
        /\ last' = [op |-> "delete_transaction", arg |-> tx_key,
                    result |-> IF tx_key \in DOMAIN ledger_db THEN "True" ELSE "False"]
        /\ UNCHANGED <<now, save_calls, screened, emuVars, cmpVars, ndbVars, thrVars>>

\* TransactionFlow.create_and_encrypt_transaction up to self.ledger_db.save_transaction
FlowBody(tx_family, sender, recipient, amount, private_key) ==
    LET body == EmulatorBody(tx_family, sender, recipient, amount, private_key)
    IN  SetItem(body, "signature", sign_transaction(body, private_key))

\* The body handed to save_transaction carries "tx_family", not "TX_FAMILY": the
\* save raises and the statements after it (the optional anchoring, the return)
\* are not reached.
create_and_encrypt_transaction(tx_family, sender, recipient, amount, private_key, anchor) ==
    LET body == FlowBody(tx_family, sender, recipient, amount, private_key)
    IN  /\ save_calls' = save_calls \cup {body}
        /\ ledger_db' = LedgerAfterSave(body)
        /\ save_ok' = SaveOkAfterSave(body)
        /\ last' = [op |-> "create_and_encrypt_transaction", arg |-> body,
                    result |-> IF SaveRaises(body) THEN "KeyError" ELSE "body"]
        /\ UNCHANGED <<now, screened, emuVars, cmpVars, ndbVars, thrVars>>

\* TransactionFlow.validate_and_anchor_transaction: verify_signature is called with
\* two arguments
validate_and_anchor_transaction(tx, public_key) ==
    LET checked == VerifySignatureCall(<<tx, public_key>>)
    IN  /\ checked # "True"
        /\ last' = [op |-> "validate_and_anchor_transaction", arg |-> tx,
                    result |-> IF checked = "False" THEN "ValueError" ELSE checked]
        /\ UNCHANGED <<now, ldbVars, emuVars, cmpVars, ndbVars, thrVars>>

\* the view of a dict in which the screen reads sender and recipient as items
ScreenView(tx) ==
    [f \in DOMAIN tx |-> IF f \in {"sender", "recipient"} THEN Raw(tx[f]) ELSE tx[f]]

\* main(), with its ComplianceVerification(scheme_type="schnorr"): the created body
\* is screened only after create_and_encrypt_transaction has returned, and the
\* screen's answer does not stop the flow
main(private_key) ==
    LET transaction == FlowBody("financial_tx", "S", "R", 100, private_key)
        is_compliant == verify_transaction(ScreenView(transaction))
    IN  /\ scheme_type = "schnorr"
        /\ save_calls' = save_calls \cup {transaction}
        /\ ledger_db' = LedgerAfterSave(transaction)
        /\ save_ok' = SaveOkAfterSave(transaction)
        /\ screened' = IF ~SaveRaises(transaction) /\ is_compliant = "True"
                       THEN screened \cup {transaction} ELSE screened
        /\ last' = [op |-> "main", arg |-> transaction,
                    result |-> IF SaveRaises(transaction) THEN "KeyError"
                               ELSE IF is_compliant \in {"True", "False"} THEN "TypeError"
                               ELSE is_compliant]
        /\ UNCHANGED <<now, emuVars, cmpVars, ndbVars, thrVars>>

\* a caller screening a transaction with ComplianceVerification.verify_transaction
screen_transaction(tx) ==
    LET is_compliant == verify_transaction(ScreenView(tx))
    IN  /\ screened' = IF is_compliant = "True" THEN screened \cup {tx} ELSE screened
        /\ last' = [op |-> "verify_transaction", arg |-> tx, result |-> is_compliant]
        /\ UNCHANGED <<now, ledger_db, save_ok, save_calls, emuVars, cmpVars, ndbVars, thrVars>>

LedgerInit ==
    /\ now = 0
    /\ EmulatorIdle
    /\ LedgerIdle
    /\ NotaryIdle
    /\ ThreadsIdle
    /\ scheme_type \in {"paillier", "schnorr"}
    /\ compliance_level = COMPLIANCE_LEVEL_BASIC
    /\ blacklist_db \in SUBSET {"0xBlacklistedAddress1"}
    /\ whitelist_db = {}
    /\ point_sub \in BOOLEAN
    /\ last = [op |-> "init", arg |-> None, result |-> "None"]

LedgerSave == \E tx \in LedgerTxs : save_transaction(tx)

LedgerDelete ==
    \E tx \in LedgerTxs : delete_transaction(generate_tx_id(tx), tx["TX_FAMILY"])

\* amounts a caller can pass to the orchestrator: legal ones, and one above
\* MAX_TRANSACTION_AMOUNT
FlowAmounts == Amounts \cup {MAX_TRANSACTION_AMOUNT + 1}

FlowCreate ==
    \E f \in TxFamilies, s \in Senders, r \in Recipients, a \in FlowAmounts,
       k \in PrivateKeys, anchor \in BOOLEAN :
        create_and_encrypt_transaction(f, s, r, a, k, anchor)

FlowValidate ==
    \E tx \in save_calls, k \in PrivateKeys :
        validate_and_anchor_transaction(tx, PublicKey(k))

Main == \E k \in PrivateKeys : main(k)

Screen == \E tx \in LedgerTxs \cup save_calls : screen_transaction(tx)

LedgerNext ==
    LedgerSave \/ LedgerDelete \/ FlowCreate \/ FlowValidate \/ Main \/ Screen

SpecLedger == LedgerInit /\ [][LedgerNext]_vars

\* ------------------------------------------------ LedgerDB: reading by family
\* family.split("_"): the tokens of the family names in use
Tokens(tx_family) ==
    CASE tx_family = "financial_tx" -> <<"financial", "tx">>
      [] tx_family = "notary_tx" -> <<"notary", "tx">>
      [] OTHER -> <<tx_family>>

IsPrefix(p, q) == Len(p) <= Len(q) /\ \A i \in DOMAIN p : p[i] = q[i]

\* key.startswith(f"{tx_family}_") for the key f"{family}_{hexid}": the hex digest
\* holds no "_", so the test passes exactly when the tokens of tx_family begin the
\* tokens of the family under which the record was stored
KeyStartsWith(key, tx_family) == IsPrefix(Tokens(tx_family), Tokens(key[1]))

\* the keys the cursor loop of get_balance and get_all_transactions lets through
KeysOfFamily(db, tx_family) == {key \in DOMAIN db : KeyStartsWith(key, tx_family)}

\* lines 96-99: what one record adds to the balance
BalanceStep(tx, address) ==
    IF tx["recipient"] = address THEN tx["amount"]
    ELSE IF tx["sender"] = address THEN 0 - tx["amount"]
    ELSE 0

RECURSIVE SumBalance(_, _, _)
SumBalance(db, keys, address) ==
    IF keys = {} THEN 0
    ELSE LET key == CHOOSE k \in keys : TRUE
         IN  BalanceStep(db[key], address) + SumBalance(db, keys \ {key}, address)

\* tx['recipient'] or tx['sender'] raises KeyError on a record without that key
GetBalanceRaises(db, address, tx_family) ==
    \E key \in KeysOfFamily(db, tx_family) :
        ~({"recipient", "sender", "amount"} \subseteq DOMAIN db[key])

get_balance_of(db, address, tx_family) ==
    SumBalance(db, KeysOfFamily(db, tx_family), address)

get_balance(address, tx_family) == get_balance_of(ledger_db, address, tx_family)

\* get_all_transactions(tx_family) for a family; get_all_transactions() is every record
get_all_transactions(tx_family) == {ledger_db[key] : key \in KeysOfFamily(ledger_db, tx_family)}

BalanceFamilies == {"financial", "financial_tx"}

BalanceAddresses == {"S", "R"}

\* flat transactions between the two addresses, the transfer to oneself included
BalanceTxs ==
    [TX_FAMILY : BalanceFamilies, sender : BalanceAddresses, recipient : {"R"},
     amount : Amounts, signature : {"sample_signature"}]

BalanceInit ==
    /\ now = 0
    /\ EmulatorIdle
    /\ ComplianceIdle
    /\ LedgerIdle
    /\ NotaryIdle
    /\ ThreadsIdle
    /\ last = [op |-> "init", arg |-> None, result |-> "None"]

BalanceSave == \E tx \in BalanceTxs : save_transaction(tx)

BalanceDelete ==
    \E tx \in BalanceTxs : delete_transaction(generate_tx_id(tx), tx["TX_FAMILY"])

GetBalance ==
    /\ \E address \in BalanceAddresses, tx_family \in BalanceFamilies :
          /\ ~GetBalanceRaises(ledger_db, address, tx_family)
          /\ last' = [op |-> "get_balance",
                      arg |-> [address |-> address, tx_family |-> tx_family],
                      result |-> get_balance(address, tx_family)]
    /\ UNCHANGED <<now, emuVars, cmpVars, ldbVars, ndbVars, thrVars>>

GetAllTransactions ==
    /\ \E tx_family \in BalanceFamilies :
          last' = [op |-> "get_all_transactions",
                   arg |-> [address |-> None, tx_family |-> tx_family],
                   result |-> get_all_transactions(tx_family)]
    /\ UNCHANGED <<now, emuVars, cmpVars, ldbVars, ndbVars, thrVars>>

BalanceNext == BalanceSave \/ BalanceDelete \/ GetBalance \/ GetAllTransactions

SpecBalance == BalanceInit /\ [][BalanceNext]_vars

\* ------------------------------------- concurrent callers of save_transaction
\* Each caller runs save_transaction once against the same LMDB file.  The write
\* transaction of env.begin(write=True) holds the environment's single writer lock
\* from begin to commit.
Threads == 1..NumThreads

Busy(t) == pc[t] \in {"called", "writing", "put"}

SaveArgs == LedgerTxs \cup {FlowBody(f, "S", "R", 100, "k1") : f \in TxFamilies}

\* lines 57-58: tx_id and tx_key are computed; tx['TX_FAMILY'] may raise
SaveCall(t, tx) ==
    /\ pc[t] = "idle"
    /\ pc' = [pc EXCEPT ![t] = IF SaveRaises(tx) THEN "done" ELSE "called"]
    /\ loc' = [u \in Threads |->
                 IF u = t
                 THEN [tx |-> tx,
                       result |-> IF SaveRaises(tx) THEN "KeyError" ELSE "pending",
                       concurrent |-> ~SaveRaises(tx) /\ \E v \in Threads \ {t} : Busy(v)]
                 ELSE [loc[u] EXCEPT !.concurrent = @ \/ (Busy(u) /\ ~SaveRaises(tx))]]
    /\ UNCHANGED <<now, last, write_lock, emuVars, cmpVars, ldbVars, ndbVars>>

\* line 59: with self.env.begin(write=True) as txn
SaveBegin(t) ==
    /\ pc[t] = "called"
    /\ write_lock = 0
    /\ write_lock' = t
    /\ pc' = [pc EXCEPT ![t] = "writing"]
    /\ UNCHANGED <<now, last, loc, emuVars, cmpVars, ldbVars, ndbVars>>

\* line 60: txn.put(tx_key, ...) writes into the open transaction, which other
\* transactions do not see before the commit
SavePut(t) ==
    /\ pc[t] = "writing"
    /\ pc' = [pc EXCEPT ![t] = "put"]
    /\ UNCHANGED <<now, last, loc, write_lock, emuVars, cmpVars, ldbVars, ndbVars>>

\* the end of the with block: the transaction commits, the writer lock is released
\* and save_transaction returns
SaveCommit(t) ==
    LET tx == loc[t].tx
    IN  /\ pc[t] = "put"
        /\ ledger_db' = LedgerPut(ledger_db, SaveKey(tx), tx)
        /\ save_ok' = SetItem(save_ok, SaveKey(tx), SavedCount(SaveKey(tx)) + 1)
        /\ write_lock' = 0
        /\ pc' = [pc EXCEPT ![t] = "done"]
        /\ loc' = [loc EXCEPT ![t].result = "None"]
        /\ last' = [op |-> "save_transaction", arg |-> tx, result |-> "None"]
        /\ UNCHANGED <<now, save_calls, screened, emuVars, cmpVars, ndbVars>>

ConcSaveInit ==
    /\ now = 0
    /\ EmulatorIdle
    /\ ComplianceIdle
    /\ LedgerIdle
    /\ NotaryIdle
    /\ pc = [t \in Threads |-> "idle"]
    /\ loc = [t \in Threads |-> [tx |-> None, result |-> "pending", concurrent |-> FALSE]]
    /\ write_lock = 0
    /\ last = [op |-> "init", arg |-> None, result |-> "None"]

ConcSaveCall == \E t \in Threads, tx \in SaveArgs : SaveCall(t, tx)

ConcSaveBegin == \E t \in Threads : SaveBegin(t)

ConcSavePut == \E t \in Threads : SavePut(t)

ConcSaveCommit == \E t \in Threads : SaveCommit(t)

ConcSaveNext == ConcSaveCall \/ ConcSaveBegin \/ ConcSavePut \/ ConcSaveCommit

SpecConcSave == ConcSaveInit /\ [][ConcSaveNext]_vars

\* ---------------------------------- concurrent callers of cancel_transaction
\* Threads share one TransactionEmulator; a thread switch can fall between any
\* two statements of cancel_transaction.

\* line 139: tx = self.notary_storage.get(tx_id)   (0 stands for None)
CancelGet(t, tx_id) ==
    /\ pc[t] = "idle"
    /\ pc' = [pc EXCEPT ![t] = "got"]
    /\ loc' = [loc EXCEPT ![t] =
                 [tx_id |-> tx_id,
                  tx |-> IF tx_id \in DOMAIN notary_storage THEN notary_storage[tx_id] ELSE 0,
                  result |-> "pending", late |-> FALSE]]
    /\ UNCHANGED <<now, last, write_lock, emuVars, cmpVars, ldbVars, ndbVars>>

\* lines 140-141: if not tx or time.time() - tx["anchored"] > window: return False
CancelCheck(t) ==
    LET tx == loc[t].tx
        refused == tx = 0 \/ now - heap[tx]["anchored"] > EmulatorCancellationWindow
    IN  /\ pc[t] = "got"
        /\ pc' = [pc EXCEPT ![t] = IF refused THEN "done" ELSE "checked"]
        /\ loc' = [loc EXCEPT ![t].result = IF refused THEN "False" ELSE "pending"]
        /\ last' = IF refused
                   THEN [op |-> "cancel_transaction", arg |-> loc[t].tx_id, result |-> "False"]
                   ELSE last
        /\ UNCHANGED <<now, write_lock, emuVars, cmpVars, ldbVars, ndbVars>>

\* lines 144-145: del self.notary_storage[tx_id]; return True
CancelDel(t) ==
    LET tx_id == loc[t].tx_id
        present == tx_id \in DOMAIN notary_storage
        result == IF present THEN "True" ELSE "KeyError"
    IN  /\ pc[t] = "checked"
        /\ pc' = [pc EXCEPT ![t] = "done"]
        /\ notary_storage' = IF present THEN DelItem(notary_storage, tx_id) ELSE notary_storage
        /\ cancelled' = IF present THEN cancelled \cup {tx_id} ELSE cancelled
        /\ loc' = [loc EXCEPT ![t].result = result,
                              ![t].late = present /\ OutsideWindow(tx_id, now)]
        /\ last' = [op |-> "cancel_transaction", arg |-> tx_id, result |-> result]
        /\ UNCHANGED <<now, write_lock, heap, ledger_storage, expired, cmpVars, ldbVars, ndbVars>>

ConcCancelInit ==
    /\ now = 0
    /\ EmulatorIdle
    /\ ComplianceIdle
    /\ LedgerIdle
    /\ NotaryIdle
    /\ pc = [t \in Threads |-> "idle"]
    /\ loc = [t \in Threads |->
                [tx_id |-> UnknownTxId, tx |-> 0, result |-> "pending", late |-> FALSE]]
    /\ write_lock = 0
    /\ last = [op |-> "init", arg |-> UnknownTxId, result |-> "None"]

ConcCreate == create_transaction("financial_tx", "S", "R", 100, "k1")

ConcCancelGet == \E t \in Threads, tx_id \in KnownTxIds : CancelGet(t, tx_id)

ConcCancelCheck == \E t \in Threads : CancelCheck(t)

ConcCancelDel == \E t \in Threads : CancelDel(t)

ConcCancelNext ==
    Tick \/ ConcCreate \/ EmulatorAnchor \/ ConcCancelGet \/ ConcCancelCheck \/ ConcCancelDel

SpecConcCancel == ConcCancelInit /\ [][ConcCancelNext]_vars

\* ------------------------------------------------------------ range proofs
\* bulletproofs_core.py selects the backend with a module constant.
BULLETPROOF_IMPLEMENTATION == "emulation"

\* A commitment is g*amount + h*blinding_factor.  The generators are either
\* integers (the "emulated commitment (int)" of emulation.py) or curve points;
\* a point is written by its discrete logarithm n to the base secp256k1.G.
Generators == {[kind |-> "int", n |-> 1], [kind |-> "Point", n |-> 1]}
RangeLimits == 0 .. MaxRange
RangeValues == -1 .. (MaxRange + 1)
BlindingFactors == 0 .. MaxRange        \* secrets.randbelow(secp256k1.q)
EmuCommitments == {[kind |-> k, n |-> n] : k \in {"int", "Point"}, n \in RangeLimits}

Commit(g, amount, h, blinding_factor) ==
    [kind |-> g.kind, n |-> (g.n * amount) + (h.n * blinding_factor)]

\* emulation.py imports check_range from range_proof.py, which does not define
\* it; bulletproofs_utils.validate_commitment_range is the range check on an
\* integer commitment.  A curve point has no order relation with an integer.
CheckRangeRaises(commitment) == commitment.kind = "Point"
check_range(commitment, range_min, range_max) ==
    range_min <= commitment.n /\ commitment.n <= range_max

\* sha256 of the transcript, reduced modulo 2^256: injective on transcripts.
compute_challenge(transcript) == <<"sha256", transcript>>

\* f"{commitment}-{range_min}-{range_max}-{proof_status}": the fields are
\* separated, so the string determines each of them.
EmuTranscript(commitment, range_min, range_max, proof_status) ==
    <<commitment, range_min, range_max, proof_status>>

emu_generate_bulletproof(commitment, range_min, range_max, simulate_correct) ==
    IF CheckRangeRaises(commitment)
    THEN [raised |-> "TypeError", proof |-> <<>>]
    ELSE IF ~check_range(commitment, range_min, range_max)
    THEN [raised |-> "ValueError", proof |-> <<>>]
    ELSE LET proof_status == IF simulate_correct THEN "valid" ELSE "invalid"
         IN  [raised |-> "None",
              proof  |-> compute_challenge(
                  EmuTranscript(commitment, range_min, range_max, proof_status))]

emu_verify_bulletproof(commitment, proof, range_min, range_max, expected_correct) ==
    LET correct_proof ==
            emu_generate_bulletproof(commitment, range_min, range_max, expected_correct)
    IN  IF correct_proof.raised # "None" THEN correct_proof.raised
        ELSE IF proof = correct_proof.proof THEN "True" ELSE "False"

\* The dispatchers of bulletproofs_core.py; with the configured constant only
\* the emulation branch and the final else are reachable.
generate_bulletproof(commitment, range_min, range_max) ==
    IF BULLETPROOF_IMPLEMENTATION = "emulation"
    THEN emu_generate_bulletproof(commitment, range_min, range_max, TRUE)
    ELSE [raised |-> "ValueError", proof |-> <<>>]

verify_bulletproof(commitment, proof, range_min, range_max) ==
    IF BULLETPROOF_IMPLEMENTATION = "emulation"
    THEN emu_verify_bulletproof(commitment, proof, range_min, range_max, TRUE)
    ELSE "ValueError"

\* blinding_factor is the value drawn by secrets.randbelow inside the call.
create_range_proof(amount, g, h, range_min, range_max, blinding_factor) ==
    LET commitment == Commit(g, amount, h, blinding_factor)
        proof == generate_bulletproof(commitment, range_min, range_max)
    IN  [commitment |-> commitment, raised |-> proof.raised, proof |-> proof.proof]

validate_range_proof(commitment, proof, range_min, range_max) ==
    verify_bulletproof(commitment, proof, range_min, range_max)

\* ---- fastecdsa backend
\* str(n) as the sequence of its characters: a digit is itself, "-" is -1.
RECURSIVE Str(_)
Str(n) ==
    IF n < 0 THEN <<-1>> \o Str(-n)
    ELSE IF n < 10 THEN <<n>>
    ELSE Str(n \div 10) \o <<n % 10>>

\* f"{commitment.x}{commitment.y}{range_min}{range_max}": the coordinates of
\* the point n*G are kept as one opaque prefix, the two bounds are
\* concatenated digit by digit with nothing between them.
FeTranscript(commitment, range_min, range_max) ==
    <<"xy", commitment.n>> \o Str(range_min) \o Str(range_max)

FeAmounts == {12, 13}
FeBlindings == {1, 2}
FeMins == {1, 12}
FeMaxs == {15, 215}
FeCommitments == {[kind |-> "Point", n |-> n] : n \in {13, 14}}

\* g and h default to secp256k1.G; blinding_factor is the factor in effect
\* after "blinding_factor or secrets.randbelow(secp256k1.q)".
fe_generate_bulletproof(amount, range_min, range_max, blinding_factor) ==
    LET G == [kind |-> "Point", n |-> 1]
        commitment == Commit(G, amount, G, blinding_factor)
    IN  IF ~(range_min <= amount /\ amount <= range_max)
        THEN [commitment |-> commitment, raised |-> "ValueError", proof |-> <<>>]
        ELSE [commitment |-> commitment, raised |-> "None",
              proof |-> <<"sha256", FeTranscript(commitment, range_min, range_max)>>]

fe_verify_bulletproof(commitment, proof, range_min, range_max) ==
    LET expected_proof == <<"sha256", FeTranscript(commitment, range_min, range_max)>>
    IN  IF proof = expected_proof THEN "True" ELSE "False"

RangeLog(op, backend, value, r, range_min, range_max, vc, vmin, vmax, verdict) ==
    [op |-> op, backend |-> backend, value |-> value, commitment |-> r.commitment,
     min |-> range_min, max |-> range_max, raised |-> r.raised, proof |-> r.proof,
     vcommitment |-> vc, vmin |-> vmin, vmax |-> vmax, verdict |-> verdict]

RangeInit ==
    /\ now = 0
    /\ EmulatorIdle
    /\ ComplianceIdle
    /\ LedgerIdle
    /\ NotaryIdle
    /\ ThreadsIdle
    /\ last = [op |-> "init"]

RangeProve ==
    /\ \E amount \in RangeValues, g \in Generators, blinding_factor \in BlindingFactors,
          range_min \in RangeLimits, range_max \in RangeLimits :
          LET r == create_range_proof(amount, g, g, range_min, range_max, blinding_factor)
          IN  last' = RangeLog("create_range_proof", "emulation", amount, r,
                               range_min, range_max, r.commitment, range_min, range_max, "None")
    /\ UNCHANGED <<now, emuVars, cmpVars, ldbVars, ndbVars, thrVars>>

RangeValidate ==
    /\ last.op = "create_range_proof"
    /\ last.raised = "None"
    /\ \E vc \in EmuCommitments \cup {last.commitment},
          vmin \in RangeLimits, vmax \in RangeLimits :
          last' = [last EXCEPT !.op = "validate_range_proof",
                               !.vcommitment = vc, !.vmin = vmin, !.vmax = vmax,
                               !.verdict = validate_range_proof(vc, last.proof, vmin, vmax)]
    /\ UNCHANGED <<now, emuVars, cmpVars, ldbVars, ndbVars, thrVars>>

FeProve ==
    /\ \E amount \in FeAmounts, blinding_factor \in FeBlindings,
          range_min \in FeMins, range_max \in FeMaxs :
          LET r == fe_generate_bulletproof(amount, range_min, range_max, blinding_factor)
          IN  last' = RangeLog("generate_bulletproof", "fastecdsa", amount, r,
                               range_min, range_max, r.commitment, range_min, range_max, "None")
    /\ UNCHANGED <<now, emuVars, cmpVars, ldbVars, ndbVars, thrVars>>

FeVerify ==
    /\ last.op = "generate_bulletproof"
    /\ last.raised = "None"
    /\ \E vc \in FeCommitments \cup {last.commitment}, vmin \in FeMins, vmax \in FeMaxs :
          last' = [last EXCEPT !.op = "verify_bulletproof",
                               !.vcommitment = vc, !.vmin = vmin, !.vmax = vmax,
                               !.verdict = fe_verify_bulletproof(vc, last.proof, vmin, vmax)]
    /\ UNCHANGED <<now, emuVars, cmpVars, ldbVars, ndbVars, thrVars>>

RangeNext == RangeProve \/ RangeValidate \/ FeProve \/ FeVerify

SpecRange == RangeInit /\ [][RangeNext]_vars

\* ------------------------------------------------------ Pedersen commitment
\* pedersen_commitment.py uses the generator of SECP256k1 for both terms.
\* A point is written by its discrete logarithm to that generator; the values
\* below stay under the curve order, so no reduction takes place.
PedersenG == [kind |-> "Point", n |-> 1]
PedersenValues == 0 .. (MaxRange + 1)
RandomFactors == 0 .. MaxRange          \* 0 is also the omitted argument

\* drawn is the value generate_random() returns when it is called.
create_commitment(value, random_factor, drawn) ==
    LET factor == IF random_factor = 0 THEN drawn ELSE random_factor
    IN  [commitment |-> Commit(PedersenG, value, PedersenG, factor),
         random_factor |-> factor]

verify_commitment(commitment, value, random_factor) ==
    LET expected_commitment == Commit(PedersenG, value, PedersenG, random_factor)
    IN  IF commitment = expected_commitment THEN "True" ELSE "False"

PedersenInit ==
    /\ now = 0
    /\ EmulatorIdle
    /\ ComplianceIdle
    /\ LedgerIdle
    /\ NotaryIdle
    /\ ThreadsIdle
    /\ last = [op |-> "init"]

\* given tells whether the caller passes random_factor; an omitted argument is
\* None, which "or" treats as it treats 0.
PedersenCreate ==
    /\ \E value \in PedersenValues, random_factor \in RandomFactors, drawn \in RandomFactors,
          given \in BOOLEAN :
          LET c == create_commitment(value, IF given THEN random_factor ELSE 0, drawn)
          IN  /\ given \/ random_factor = 0
              /\ last' = [op |-> "create_commitment", value |-> value,
                          given |-> given, supplied |-> random_factor,
                          random_factor |-> c.random_factor, commitment |-> c.commitment,
                          vvalue |-> value, vrandom |-> c.random_factor, result |-> "None"]
    /\ UNCHANGED <<now, emuVars, cmpVars, ldbVars, ndbVars, thrVars>>

PedersenVerify ==
    /\ last.op = "create_commitment"
    /\ \E value \in PedersenValues, random_factor \in RandomFactors :
          last' = [last EXCEPT !.op = "verify_commitment",
                               !.vvalue = value, !.vrandom = random_factor,
                               !.result = verify_commitment(last.commitment, value, random_factor)]
    /\ UNCHANGED <<now, emuVars, cmpVars, ldbVars, ndbVars, thrVars>>

PedersenNext == PedersenCreate \/ PedersenVerify

SpecPedersen == PedersenInit /\ [][PedersenNext]_vars

\* ---------------------------------------------------------------- signature
SignatureKeys == {"k1", "k2", "k3"}
SignatureTxs ==
    {EmulatorBody(f, "S", "R", a, "k1") : f \in TxFamilies, a \in {100, 200}}
SignedSignatures == {sign_transaction(tx, k) : tx \in SignatureTxs, k \in SignatureKeys}
MalformedSignatures == {NotHex, WrongLength, EmptySignature}

SignatureInit ==
    /\ now = 0
    /\ EmulatorIdle
    /\ ComplianceIdle
    /\ LedgerIdle
    /\ NotaryIdle
    /\ ThreadsIdle
    /\ last = [op |-> "init"]

SignTransaction ==
    /\ \E tx \in SignatureTxs, k \in SignatureKeys :
          last' = [op |-> "sign_transaction", tx |-> tx, public_key |-> PublicKey(k),
                   signature |-> sign_transaction(tx, k), result |-> "None"]
    /\ UNCHANGED <<now, emuVars, cmpVars, ldbVars, ndbVars, thrVars>>

VerifySignature ==
    /\ \E tx \in SignatureTxs, k \in SignatureKeys,
          signature \in SignedSignatures \cup MalformedSignatures :
          last' = [op |-> "verify_signature", tx |-> tx, public_key |-> PublicKey(k),
                   signature |-> signature,
                   result |-> VerifySignatureCall(<<tx, PublicKey(k), signature>>)]
    /\ UNCHANGED <<now, emuVars, cmpVars, ldbVars, ndbVars, thrVars>>

SignatureNext == SignTransaction \/ VerifySignature

SpecSignature == SignatureInit /\ [][SignatureNext]_vars

\* ---------------------------------------------------------------- validation
\* The three validators, as functions of the transaction a caller hands in.
\* data/transaction.py validate_transaction
\* The validator without its check of the header fields.
data_validate_transaction_unchecked(tx, public_key) ==
    VerifySignatureCall(<<tx, public_key>>)

data_validate_transaction(tx, public_key) ==
    LET required_fields == {"sender", "recipient", "timestamp", "amount"}
        header == IF "header" \in DOMAIN tx THEN tx["header"] ELSE EmptyDict
    IN  IF ~(required_fields \subseteq DOMAIN header) THEN "False"
        ELSE VerifySignatureCall(<<tx, public_key>>)

\* The checks validate_transaction performs, in the order it performs them.
validate_transaction_calls(tx) ==
    LET required_fields == {"sender", "recipient", "timestamp", "amount"}
        header == IF "header" \in DOMAIN tx THEN tx["header"] ELSE EmptyDict
    IN  IF ~(required_fields \subseteq DOMAIN header) THEN <<"structure">>
        ELSE <<"structure", "verify_signature">>

\* The checks compliance_check performs, in the order it performs them, up to
\* the one that makes it return.
compliance_check_calls(tx, level) ==
    LET basic == level >= COMPLIANCE_LEVEL_BASIC
        advanced == level >= COMPLIANCE_LEVEL_ADVANCED
    IN  IF ~validate_tx_structure(tx) THEN <<"validate_tx_structure">>
        ELSE <<"validate_tx_structure">>
             \o (IF basic THEN <<"amount">> ELSE <<>>)
             \o (IF advanced /\ (~basic \/ (0 < tx["amount"] /\ tx["amount"] <= MAX_TRANSACTION_AMOUNT))
                 THEN <<"lists">> ELSE <<>>)

\* verify_commitment of TransactionEmulator and of TransactionFlow: a placeholder
placeholder_verify_commitment(commitment, amount, public_key) == TRUE

\* TransactionEmulator.validate_transaction, and the part of
\* TransactionFlow.validate_and_anchor_transaction before the anchoring
emulator_validate_transaction(tx, public_key) ==
    LET checked == VerifySignatureCall(<<tx, public_key>>)
    IN  IF checked # "True" THEN checked
        ELSE IF ~placeholder_verify_commitment(tx["commitment"], tx["header"]["amount"],
                                               public_key)
        THEN "False"
        ELSE "True"

\* TransactionFlow.validate_and_anchor_transaction: the transaction is anchored
\* exactly when the checks let the call reach self.anchor.anchor_transaction(tx)
flow_validate_and_anchor(tx, public_key) ==
    LET result == emulator_validate_transaction(tx, public_key)
    IN  [result |-> result, anchored |-> (result = "True")]

\* What a caller can hand in: a transaction as create_and_encrypt_transaction
\* built it, or one changed afterwards.
HeaderFields == {"sender", "recipient", "timestamp", "amount"}
HonestTxs == {FlowBody(f, "S", "R", a, k) : f \in TxFamilies, a \in Amounts, k \in PrivateKeys}
ChangedValue(field) == IF field \in {"timestamp", "amount"} THEN 7 ELSE "M"
HeaderChanged(tx, field) ==
    [tx EXCEPT !["header"] = SetItem(tx["header"], field, ChangedValue(field))]
HeaderFieldDropped(tx, field) == [tx EXCEPT !["header"] = DelItem(tx["header"], field)]
CommitmentChanged(tx) ==
    [tx EXCEPT !["commitment"] = create_pedersen_commitment(7, "k1")]
ChangedTxs ==
    {HeaderChanged(tx, f) : tx \in HonestTxs, f \in HeaderFields}
    \cup {HeaderFieldDropped(tx, f) : tx \in HonestTxs, f \in HeaderFields}
    \cup {CommitmentChanged(tx) : tx \in HonestTxs}

ValidateInit ==
    /\ now = 0
    /\ EmulatorIdle
    /\ ComplianceIdle
    /\ LedgerIdle
    /\ NotaryIdle
    /\ ThreadsIdle
    /\ last = [op |-> "init"]

ValidateData ==
    /\ \E tx \in HonestTxs \cup ChangedTxs, k \in SignatureKeys :
          last' = [op |-> "validate_transaction", tx |-> tx, public_key |-> PublicKey(k),
                   result |-> data_validate_transaction(tx, PublicKey(k)),
                   anchored |-> FALSE, calls |-> validate_transaction_calls(tx)]
    /\ UNCHANGED <<now, emuVars, cmpVars, ldbVars, ndbVars, thrVars>>

ValidateEmulator ==
    /\ \E tx \in HonestTxs \cup ChangedTxs, k \in SignatureKeys :
          last' = [op |-> "TransactionEmulator.validate_transaction", tx |-> tx,
                   public_key |-> PublicKey(k),
                   result |-> emulator_validate_transaction(tx, PublicKey(k)),
                   anchored |-> FALSE]
    /\ UNCHANGED <<now, emuVars, cmpVars, ldbVars, ndbVars, thrVars>>

ValidateFlow ==
    /\ \E tx \in HonestTxs \cup ChangedTxs, k \in SignatureKeys :
          LET r == flow_validate_and_anchor(tx, PublicKey(k))
          IN  last' = [op |-> "validate_and_anchor_transaction", tx |-> tx,
                       public_key |-> PublicKey(k),
                       result |-> r.result, anchored |-> r.anchored]
    /\ UNCHANGED <<now, emuVars, cmpVars, ldbVars, ndbVars, thrVars>>

\* The transactions handed to compliance_check: flat dicts with every field,
\* flat dicts with one field missing, and the nested dicts create_transaction
\* builds.
StructureTxs ==
    PlainTxs
    \cup {DelItem(tx, f) : tx \in PlainTxs,
                           f \in {"sender", "recipient", "timestamp", "amount", "signature"}}
    \cup HonestTxs

ValidateCompliance ==
    /\ \E tx \in StructureTxs, level \in {COMPLIANCE_LEVEL_BASIC, COMPLIANCE_LEVEL_ADVANCED} :
          last' = [op |-> "compliance_check", tx |-> tx, level |-> level,
                   result |-> compliance_check(tx, level),
                   anchored |-> FALSE, calls |-> compliance_check_calls(tx, level)]
    /\ UNCHANGED <<now, emuVars, cmpVars, ldbVars, ndbVars, thrVars>>

ValidateNext == ValidateData \/ ValidateEmulator \/ ValidateFlow \/ ValidateCompliance

SpecValidate == ValidateInit /\ [][ValidateNext]_vars

\* ------------------------------------------------------------------ NotaryDB
\* Times are seconds; datetime.utcnow() is now.
NotaryContents == {[tx_id |-> "t1"], [tx_id |-> "t2"]}
ExpirationMinutes == {0, 1}
AnchorWindows == {0, EmulatorCancellationWindow}

\* f"notary_{record_id}"
notary_key(record_id) == <<"notary", record_id>>

\* lines 61-69: the record, with "expires_at" only when expiration_minutes > 0
NotaryRecordData(content, signature, expiration_minutes) ==
    LET record_data == [content |-> content, signature |-> signature, timestamp |-> now]
    IN  IF expiration_minutes > 0
        THEN SetItem(record_data, "expires_at", now + (expiration_minutes * MinuteSeconds))
        ELSE record_data

NotaryFull == Cardinality(DOMAIN notary_db) >= MaxObj

save_notary_record(content, signature, expiration_minutes) ==
    LET record_data == NotaryRecordData(content, signature, expiration_minutes)
        record_id == sha256_json(record_data)
    IN  /\ ~NotaryFull
        /\ notary_db' = SetItem(notary_db, notary_key(record_id), record_data)
        /\ last' = [op |-> "save_notary_record", arg |-> content, result |-> record_id]
        /\ UNCHANGED <<now, emuVars, cmpVars, ldbVars, thrVars>>

\* notary_interface.anchor_transaction: the anchor record is handed to
\* save_notary_record as its only argument, while content and signature are
\* both required: the call raises before anything is stored
anchor_record(tx_id, cancellation_window) ==
    [tx_id |-> tx_id, anchored_at |-> now,
     expires_at |-> now + (cancellation_window * MinuteSeconds)]

interface_anchor_transaction(tx_id, cancellation_window) ==
    LET args == <<anchor_record(tx_id, cancellation_window)>>
    IN  /\ Len(args) < 2
        /\ last' = [op |-> "anchor_transaction",
                    arg |-> [tx_id |-> tx_id, cancellation_window |-> cancellation_window],
                    result |-> "TypeError"]
        /\ UNCHANGED <<now, emuVars, cmpVars, ldbVars, ndbVars, thrVars>>

\* datetime.utcnow() > expiration_time, for a record that has "expires_at"
NotaryExpired(record) ==
    "expires_at" \in DOMAIN record /\ now > record["expires_at"]

\* get_notary_record, lines 90-96: inside the read transaction the record is
\* fetched and its expiry checked.  An expired record sends the caller on to
\* delete_notary_record; every other case returns here.
GetCheck(t, record_key) ==
    LET found == record_key \in DOMAIN notary_db
        is_expired == found /\ NotaryExpired(notary_db[record_key])
    IN  /\ pc[t] = "idle"
        /\ pc' = [pc EXCEPT ![t] = IF is_expired THEN "deleting" ELSE "idle"]
        /\ loc' = [loc EXCEPT ![t] = record_key]
        /\ last' = IF is_expired THEN last
                   ELSE [op |-> "get_notary_record", arg |-> record_key,
                         result |-> IF found THEN notary_db[record_key] ELSE None]
        /\ UNCHANGED <<now, write_lock, emuVars, cmpVars, ldbVars, ndbVars>>

\* lines 97-98: self.delete_notary_record(record_id) opens its own write
\* transaction (lines 137-138), deletes the key and get_notary_record returns None
GetDelete(t) ==
    /\ pc[t] = "deleting"
    /\ notary_db' = IF loc[t] \in DOMAIN notary_db THEN DelItem(notary_db, loc[t])
                    ELSE notary_db
    /\ pc' = [pc EXCEPT ![t] = "idle"]
    /\ last' = [op |-> "get_notary_record", arg |-> loc[t], result |-> None]
    /\ UNCHANGED <<now, loc, write_lock, emuVars, cmpVars, ldbVars>>

delete_notary_record(record_key) ==
    /\ notary_db' = IF record_key \in DOMAIN notary_db THEN DelItem(notary_db, record_key)
                    ELSE notary_db
    /\ last' = [op |-> "delete_notary_record", arg |-> record_key,
                result |-> IF record_key \in DOMAIN notary_db THEN "True" ELSE "False"]
    /\ UNCHANGED <<now, emuVars, cmpVars, ldbVars, thrVars>>

UnknownRecordKey ==
    notary_key(sha256_json([content |-> [tx_id |-> "none"], signature |-> "sig",
                            timestamp |-> 0]))

NotaryInit ==
    /\ now = 0
    /\ EmulatorIdle
    /\ ComplianceIdle
    /\ LedgerIdle
    /\ NotaryIdle
    /\ pc = [t \in Threads |-> "idle"]
    /\ loc = [t \in Threads |-> UnknownRecordKey]
    /\ write_lock = 0
    /\ last = [op |-> "init", arg |-> None, result |-> None]

NotaryTick ==
    /\ now + TimeStep <= MaxTime
    /\ now' = now + TimeStep
    /\ UNCHANGED <<last, emuVars, cmpVars, ldbVars, ndbVars, thrVars>>

NotarySave ==
    \E content \in NotaryContents, expiration_minutes \in ExpirationMinutes :
        save_notary_record(content, "sig", expiration_minutes)

NotaryAnchor ==
    \E content \in NotaryContents, cancellation_window \in AnchorWindows :
        interface_anchor_transaction(content["tx_id"], cancellation_window)

\* one caller is followed through get_notary_record; the other callers' store
\* operations are the actions NotarySave and NotaryDelete
NotaryReaders == {1}

NotaryGetCheck ==
    \E t \in NotaryReaders, k \in DOMAIN notary_db \cup {UnknownRecordKey} : GetCheck(t, k)

NotaryGetDelete == \E t \in NotaryReaders : GetDelete(t)

NotaryDelete ==
    \E k \in DOMAIN notary_db \cup {UnknownRecordKey} : delete_notary_record(k)

\* get_notary_record returns the record: the key is present and the record
\* is not past its expiry (lines 90-99).
get_notary_record_returns(record_key) ==
    /\ record_key \in DOMAIN notary_db
    /\ ~NotaryExpired(notary_db[record_key])

\* The listing that drops a record from its expiry time on.
list_notary_records_from_expiry(include_expired) ==
    {notary_db[k] : k \in {key \in DOMAIN notary_db :
        ~("expires_at" \in DOMAIN notary_db[key] /\ ~include_expired
          /\ now >= notary_db[key]["expires_at"])}}

\* list_notary_records: every key of the store starts with "notary_"; a
\* record is skipped when it has "expires_at", include_expired is False and
\* utcnow() > expiration_time.  The list is written as the set of its records.
list_notary_records(include_expired) ==
    {notary_db[k] : k \in {key \in DOMAIN notary_db :
        ~("expires_at" \in DOMAIN notary_db[key] /\ ~include_expired
          /\ now > notary_db[key]["expires_at"])}}

NotaryList ==
    /\ \E include_expired \in BOOLEAN :
          last' = [op |-> "list_notary_records", arg |-> include_expired,
                   result |-> list_notary_records(include_expired)]
    /\ UNCHANGED <<now, thrVars, emuVars, cmpVars, ldbVars, ndbVars>>

NotaryNext ==
    \/ NotaryTick \/ NotarySave \/ NotaryAnchor \/ NotaryGetCheck \/ NotaryGetDelete
    \/ NotaryDelete \/ NotaryList

SpecNotary == NotaryInit /\ [][NotaryNext]_vars

\* ------------------------------------------------ homomorphic encryption
\* src/encryption/homomorphic_encryption.py.  encrypt_value and decrypt_value
\* hand their arguments to the Paillier scheme of the phe library, which is
\* modelled by its arithmetic on small primes: g = n + 1, the ciphertext is
\* (n * m + 1) * r^n mod n^2, decryption works modulo p^2 and q^2 and combines
\* the two results by the Chinese remainder theorem, and a signed integer is
\* encoded modulo n with the range -max_int .. max_int, max_int = n / 3 - 1.
PaillierPrimes == {3, 5, 7}
HePlaintexts == -11 .. 11

RECURSIVE powmod(_, _, _)
powmod(a, b, c) == IF b = 0 THEN 1 % c ELSE (a * powmod(a, b - 1, c)) % c

invert(a, b) == CHOOSE x \in 0 .. (b - 1) : (a * x) % b = 1 % b

\* The key pairs paillier.generate_paillier_keypair() can return: two
\* different primes, the private key holding them in ascending order.
generate_paillier_keypair ==
    {<<[n |-> pq[1] * pq[2]],
       [p |-> pq[1], q |-> pq[2], public_key |-> [n |-> pq[1] * pq[2]]]>> :
        pq \in {x \in PaillierPrimes \X PaillierPrimes : x[1] < x[2]}}

PaillierPublicKeys == {kp[1] : kp \in generate_paillier_keypair}
PaillierPrivateKeys == {kp[2] : kp \in generate_paillier_keypair}

max_int(public_key) == (public_key.n \div 3) - 1

\* The random r of an encryption.  The library draws it from 1 .. n - 1; for
\* a key of real size it is a unit modulo n except with negligible
\* probability (a non-unit would disclose a factor of n), so the units are
\* the values drawn here.
Obfuscators(public_key) ==
    {r \in 1 .. (public_key.n - 1) :
        \E x \in 1 .. (public_key.n - 1) : (r * x) % public_key.n = 1}

raw_encrypt(public_key, plaintext, r) ==
    LET n == public_key.n
        nsquare == n * n
        nude_ciphertext == (n * plaintext + 1) % nsquare
        obfuscator == powmod(r, n, nsquare)
    IN  (nude_ciphertext * obfuscator) % nsquare

encode(public_key, value) == value % public_key.n

\* The decoding without the negative half of the range.
decode_unsigned(public_key, encoding) ==
    IF encoding <= max_int(public_key) THEN [value |-> encoding]
    ELSE [error |-> "OverflowError"]

decode(public_key, encoding) ==
    IF encoding <= max_int(public_key) THEN [value |-> encoding]
    ELSE IF encoding >= public_key.n - max_int(public_key)
         THEN [value |-> encoding - public_key.n]
    ELSE [error |-> "OverflowError"]

l_function(x, p) == (x - 1) \div p

h_function(x, xsquare, g) == invert(l_function(powmod(g, x - 1, xsquare), x), x)

crt(private_key, mp, mq) ==
    LET p_inverse == invert(private_key.p % private_key.q, private_key.q)
        u == ((mq - mp) * p_inverse) % private_key.q
    IN  mp + u * private_key.p

raw_decrypt(private_key, ciphertext) ==
    LET p == private_key.p
        q == private_key.q
        g == private_key.public_key.n + 1
        decrypt_to_p ==
            (l_function(powmod(ciphertext, p - 1, p * p), p) * h_function(p, p * p, g)) % p
        decrypt_to_q ==
            (l_function(powmod(ciphertext, q - 1, q * q), q) * h_function(q, q * q, g)) % q
    IN  crt(private_key, decrypt_to_p, decrypt_to_q)

\* r is the value the library draws for this encryption.
encrypt_value(value, public_key, r) ==
    IF value > max_int(public_key) \/ -value > max_int(public_key)
    THEN [error |-> "ValueError"]
    ELSE [public_key |-> public_key,
          ciphertext |-> raw_encrypt(public_key, encode(public_key, value), r)]

decrypt_value(encrypted_value, private_key) ==
    IF private_key.public_key # encrypted_value.public_key
    THEN [error |-> "ValueError"]
    ELSE decode(private_key.public_key, raw_decrypt(private_key, encrypted_value.ciphertext))

HeInit ==
    /\ now = 0
    /\ EmulatorIdle
    /\ ComplianceIdle
    /\ LedgerIdle
    /\ NotaryIdle
    /\ ThreadsIdle
    /\ last = [op |-> "init"]

HeEncrypt ==
    /\ last.op = "init"
    /\ \E kp \in generate_paillier_keypair, value \in HePlaintexts :
          \E r \in Obfuscators(kp[1]) :
              last' = [op |-> "encrypt_value", value |-> value, public_key |-> kp[1],
                       r |-> r, encrypted |-> encrypt_value(value, kp[1], r),
                       private_key |-> kp[2], result |-> [value |-> 0]]
    /\ UNCHANGED <<now, emuVars, cmpVars, ldbVars, ndbVars, thrVars>>

HeDecrypt ==
    /\ last.op = "encrypt_value"
    /\ "ciphertext" \in DOMAIN last.encrypted
    /\ \E private_key \in PaillierPrivateKeys :
          last' = [last EXCEPT !.op = "decrypt_value", !.private_key = private_key,
                               !.result = decrypt_value(last.encrypted, private_key)]
    /\ UNCHANGED <<now, emuVars, cmpVars, ldbVars, ndbVars, thrVars>>

HeNext == HeEncrypt \/ HeDecrypt

SpecHe == HeInit /\ [][HeNext]_vars

\* ------------------------------------------------------ backend selection
\* The dispatchers of bulletproofs_core.py for any value of the module
\* constant.  has_dalek is HAS_DALEK of bulletproofs_core.py.  The import of
\* fastecdsa_impl cannot raise ImportError, because that module catches it
\* itself, so HAS_FASTECDSA of bulletproofs_core.py is always True;
\* fastecdsa_installed is HAS_FASTECDSA of fastecdsa_impl.py.
Implementations == {"dalek", "fastecdsa", "emulation", "unknown"}
BackendInputs == 0 .. MaxRange
SchemeTypes == {"paillier", "schnorr", "elgamal"}

\* The branch taken when every missing backend falls through to emulation.
select_backend_fallback(implementation, has_dalek) ==
    IF implementation = "dalek" /\ has_dalek THEN "dalek"
    ELSE IF implementation = "fastecdsa" THEN "fastecdsa"
    ELSE "emulation"

\* The branch of the if / elif chain: the backend called, or "ValueError".
select_backend(implementation, has_dalek) ==
    IF implementation = "dalek" /\ has_dalek THEN "dalek"
    ELSE IF implementation = "fastecdsa" THEN "fastecdsa"
    ELSE IF implementation = "emulation" THEN "emulation"
    ELSE "ValueError"

\* The proof of the dalek library is opaque: a value determined by the
\* arguments of the call.
dalek_generate_bulletproof(commitment, range_min, range_max) ==
    [commitment |-> [kind |-> "int", n |-> commitment], raised |-> "None",
     proof |-> <<"dalek", commitment, range_min, range_max>>]

dalek_verify_bulletproof(commitment, proof, range_min, range_max) ==
    IF proof = <<"dalek", commitment.n, range_min, range_max>> THEN "True" ELSE "False"

\* The first argument is the commitment for dalek and emulation and the
\* amount for fastecdsa; blinding_factor is the value drawn inside fastecdsa.
core_generate_bulletproof(implementation, has_dalek, fastecdsa_installed, commitment, range_min, range_max, blinding_factor) ==
    LET backend == select_backend(implementation, has_dalek)
        nothing == [commitment |-> [kind |-> "int", n |-> commitment], proof |-> <<>>]
        result ==
            IF backend = "dalek"
            THEN dalek_generate_bulletproof(commitment, range_min, range_max)
            ELSE IF backend = "fastecdsa"
            THEN IF fastecdsa_installed
                 THEN fe_generate_bulletproof(commitment, range_min, range_max, blinding_factor)
                 ELSE nothing @@ [raised |-> "ImportError"]
            ELSE IF backend = "emulation"
            THEN nothing @@ emu_generate_bulletproof([kind |-> "int", n |-> commitment],
                                                     range_min, range_max, TRUE)
            ELSE nothing @@ [raised |-> "ValueError"]
    IN  [invoked |-> IF backend = "ValueError" THEN "none" ELSE backend,
         commitment |-> result.commitment, raised |-> result.raised,
         proof |-> result.proof]

\* verdict is "True", "False" or the name of the exception raised.
core_verify_bulletproof(implementation, has_dalek, fastecdsa_installed, commitment, proof, range_min, range_max) ==
    LET backend == select_backend(implementation, has_dalek)
    IN  [invoked |-> IF backend = "ValueError" THEN "none" ELSE backend,
         verdict |->
            IF backend = "dalek"
            THEN dalek_verify_bulletproof(commitment, proof, range_min, range_max)
            ELSE IF backend = "fastecdsa"
            THEN IF fastecdsa_installed
                 THEN fe_verify_bulletproof(commitment, proof, range_min, range_max)
                 ELSE "ImportError"
            ELSE IF backend = "emulation"
            THEN emu_verify_bulletproof(commitment, proof, range_min, range_max, TRUE)
            ELSE "ValueError"]

\* PSIScheme.__init__: the exception raised, or "None".
PSIScheme_init(scheme) ==
    IF scheme = "paillier" THEN "None"
    ELSE IF scheme = "schnorr" THEN "None"
    ELSE "ValueError"

BackendInit ==
    /\ now = 0
    /\ EmulatorIdle
    /\ ComplianceIdle
    /\ LedgerIdle
    /\ NotaryIdle
    /\ ThreadsIdle
    /\ last = [op |-> "init"]

BackendGenerate ==
    /\ last.op = "init"
    /\ \E implementation \in Implementations, has_dalek \in BOOLEAN,
          fastecdsa_installed \in BOOLEAN, commitment \in BackendInputs,
          range_min \in RangeLimits, range_max \in RangeLimits :
          LET r == core_generate_bulletproof(implementation, has_dalek, fastecdsa_installed,
                                             commitment, range_min, range_max, 1)
          IN  last' = [op |-> "core.generate_bulletproof",
                       implementation |-> implementation, has_dalek |-> has_dalek,
                       fastecdsa_installed |-> fastecdsa_installed,
                       commitment |-> r.commitment, min |-> range_min, max |-> range_max,
                       invoked |-> r.invoked, raised |-> r.raised, proof |-> r.proof]
    /\ UNCHANGED <<now, emuVars, cmpVars, ldbVars, ndbVars, thrVars>>

BackendVerify ==
    /\ last.op = "core.generate_bulletproof"
    /\ LET r == core_verify_bulletproof(last.implementation, last.has_dalek,
                                        last.fastecdsa_installed, last.commitment,
                                        last.proof, last.min, last.max)
       IN  last' = [last EXCEPT !.op = "core.verify_bulletproof",
                                !.invoked = r.invoked,
                                !.raised = IF r.verdict \in {"True", "False"}
                                           THEN "None" ELSE r.verdict]
    /\ UNCHANGED <<now, emuVars, cmpVars, ldbVars, ndbVars, thrVars>>

PsiConstruct ==
    /\ last.op = "init"
    /\ \E scheme \in SchemeTypes :
          last' = [op |-> "PSIScheme", scheme |-> scheme, raised |-> PSIScheme_init(scheme)]
    /\ UNCHANGED <<now, emuVars, cmpVars, ldbVars, ndbVars, thrVars>>

BackendNext == BackendGenerate \/ BackendVerify \/ PsiConstruct

SpecBackend == BackendInit /\ [][BackendNext]_vars

\* ------------------------------------------------------- store lifecycle
\* The store events of one operation, in the order they happen on the path
\* taken: "open" / "close" of a store handle (lmdb.open, env.close), "begin" /
\* "end" of a store transaction (entry to and exit from a with block), and
\* the reads and writes between them.  raised is the exception that leaves
\* the operation, or "None".
Returned(events) == [events |-> events, raised |-> "None"]
Raised(exception) == [events |-> <<>>, raised |-> exception]

\* with self.env.begin(...) as txn: the exit runs on return and on raise.
WithTransaction(inner) ==
    [events |-> <<"begin">> \o inner.events \o <<"end">>, raised |-> inner.raised]

\* LedgerDB.save_transaction: tx['TX_FAMILY'] is read before the with block.
ledger_save_events(tx) ==
    IF SaveRaises(tx) THEN Raised("KeyError") ELSE WithTransaction(Returned(<<"put">>))

\* LedgerDB.get_balance over a store holding tx: tx['recipient'] is read
\* inside the with block.
ledger_balance_events(tx) ==
    WithTransaction([events |-> <<"cursor">>,
                     raised |-> IF "recipient" \in DOMAIN tx THEN "None" ELSE "KeyError"])

ledger_delete_events == WithTransaction(Returned(<<"delete">>))

\* NotaryDB.save_notary_record; a call that passes no signature raises
\* TypeError before the body runs.
notary_save_events(signature_passed) ==
    IF ~signature_passed THEN Raised("TypeError")
    ELSE WithTransaction(Returned(<<"put">>))

notary_delete_events == WithTransaction(Returned(<<"delete">>))

\* NotaryDB.get_notary_record: the delete of an expired record runs inside
\* the with block of the read.
notary_get_events(found, record) ==
    WithTransaction(
        IF found /\ NotaryExpired(record)
        THEN Returned(<<"get">> \o notary_delete_events.events)
        ELSE Returned(<<"get">>))

\* data/transaction.py create_transaction.  The body it builds.
DataBody(tx_family, sender, recipient, amount, private_key) ==
    LET header == Header(sender, recipient, amount)
        body == [tx_id |-> sha256_json(header), header |-> header, tx_family |-> tx_family]
    IN  SetItem(body, "signature", sign_transaction(body, private_key))

\* Lines 76-84: the store is opened, the body saved and the store closed, as
\* three statements in a row.
data_create_transaction_events(tx_family, sender, recipient, amount, private_key, is_notary, expiration_minutes) ==
    LET body == DataBody(tx_family, sender, recipient, amount, private_key)
        save == IF is_notary THEN notary_save_events(FALSE) ELSE ledger_save_events(body)
    IN  [events |-> <<"open">> \o save.events
                    \o (IF save.raised = "None" THEN <<"close">> ELSE <<>>),
         raised |-> save.raised]

RECURSIVE CountEvents(_, _)
CountEvents(events, e) ==
    IF events = <<>> THEN 0
    ELSE (IF Head(events) = e THEN 1 ELSE 0) + CountEvents(Tail(events), e)

OpenHandles(events) == CountEvents(events, "open") - CountEvents(events, "close")
OpenTransactions(events) == CountEvents(events, "begin") - CountEvents(events, "end")

LifecycleAmounts == {0, 100, MAX_TRANSACTION_AMOUNT}
LifecycleRecords ==
    {[content |-> c, signature |-> "sig", timestamp |-> 0] : c \in NotaryContents}
    \cup {[content |-> c, signature |-> "sig", timestamp |-> 0, expires_at |-> MinuteSeconds] :
            c \in NotaryContents}
LifecycleTxs ==
    LedgerTxs \cup {DataBody(f, "S", "R", a, "k1") : f \in TxFamilies, a \in LifecycleAmounts}

\* leaked counts the store handles earlier operations left unclosed.
LifecycleLog(op, arg, r) ==
    [op |-> op, arg |-> arg, events |-> r.events, raised |-> r.raised,
     leaked |-> last.leaked + OpenHandles(r.events)]

LifecycleInit ==
    /\ now \in {0, MaxTime}
    /\ EmulatorIdle
    /\ ComplianceIdle
    /\ LedgerIdle
    /\ NotaryIdle
    /\ ThreadsIdle
    /\ last = [op |-> "init", leaked |-> 0]

LifecycleCreate ==
    /\ last.leaked < MaxObj
    /\ \E tx_family \in TxFamilies, amount \in LifecycleAmounts, is_notary \in BOOLEAN,
          expiration_minutes \in ExpirationMinutes :
          last' = LifecycleLog("create_transaction",
                      <<tx_family, amount, is_notary, expiration_minutes>>,
                      data_create_transaction_events(tx_family, "S", "R", amount, "k1",
                                                     is_notary, expiration_minutes))
    /\ UNCHANGED <<now, emuVars, cmpVars, ldbVars, ndbVars, thrVars>>

LifecycleLedger ==
    /\ \E tx \in LifecycleTxs :
          \/ last' = LifecycleLog("save_transaction", tx, ledger_save_events(tx))
          \/ last' = LifecycleLog("get_balance", tx, ledger_balance_events(tx))
          \/ last' = LifecycleLog("delete_transaction", tx, ledger_delete_events)
    /\ UNCHANGED <<now, emuVars, cmpVars, ldbVars, ndbVars, thrVars>>

LifecycleNotary ==
    /\ \E record \in LifecycleRecords, found \in BOOLEAN, signature_passed \in BOOLEAN :
          \/ last' = LifecycleLog("save_notary_record", <<record, signature_passed>>,
                                  notary_save_events(signature_passed))
          \/ last' = LifecycleLog("get_notary_record", <<record, found>>,
                                  notary_get_events(found, record))
          \/ last' = LifecycleLog("delete_notary_record", <<record, found>>,
                                  notary_delete_events)
    /\ UNCHANGED <<now, emuVars, cmpVars, ldbVars, ndbVars, thrVars>>

LifecycleNext == LifecycleCreate \/ LifecycleLedger \/ LifecycleNotary

SpecLifecycle == LifecycleInit /\ [][LifecycleNext]_vars

\* ------------------------------------------------------------ properties
\* C1: ledger writes are at-most-once: a save under a family+id key that the ledger
\* already holds is rejected, so no key has had more than one successful save
\* since it was last absent.
C1_AtMostOnceWrite == \A key \in DOMAIN save_ok : save_ok[key] <= 1

\* C2: the orchestrator hands a transaction to the ledger write only after the
\* compliance screen has run on it and returned Compliant.
C2_ScreenPrecedesLedgerWrite == save_calls \subseteq screened

\* C4: an anchor whose expiry instant (anchored + window) lies before now is absent
\* from the result of list_notary_anchors.
C4_ExpiredAbsentFromLists ==
    \A tx \in list_notary_anchors :
        ~(tx["anchored"] + EmulatorCancellationWindow < now)

\* C7: of the concurrent saves under one family+id key exactly one succeeds: no two
\* callers whose calls overlapped have both returned normally for the same key.
C7_OneConcurrentSaveSucceeds ==
    \A t \in Threads, u \in Threads :
        (/\ t # u
         /\ pc[t] = "done" /\ pc[u] = "done"
         /\ loc[t].concurrent /\ loc[u].concurrent
         /\ loc[t].result = "None" /\ loc[u].result = "None")
        => SaveKey(loc[t].tx) # SaveKey(loc[u].tx)

\* C8: cancellation is an atomic delete-if-valid: no concurrent cancel raises, no
\* two cancels of one anchor both succeed, and no cancel succeeds with its delete
\* falling after the expiry instant.
C8_AtomicCancel ==
    /\ \A t \in Threads : loc[t].result \in {"pending", "True", "False"}
    /\ \A t \in Threads : loc[t].result = "True" => ~loc[t].late
    /\ \A t \in Threads, u \in Threads :
          (t # u /\ loc[t].result = "True" /\ loc[u].result = "True")
          => (loc[t].tx_id # loc[u].tx_id \/ loc[t].tx # loc[u].tx)

\* C11: compute_intersection(encrypt_set(A), encrypt_set(B)) returns, without
\* raising, exactly the elements of encrypt_set(A) whose plaintext is the plaintext
\* of an element of B.
C11_IntersectionExact ==
    last.op = "compute_intersection" =>
        LET in_b(item) == Plaintext(item) \in Range(last.b)
        IN  /\ last.raised = "None"
            /\ last.matches = SelectSeq(encrypt_list(scheme_type, last.a, "A"), in_b)

\* the records stored for a family
RecordsOfFamily(tx_family) ==
    {key \in DOMAIN ledger_db : ledger_db[key]["TX_FAMILY"] = tx_family}

RECURSIVE SumAmounts(_)
SumAmounts(keys) ==
    IF keys = {} THEN 0
    ELSE LET key == CHOOSE k \in keys : TRUE
         IN  ledger_db[key]["amount"] + SumAmounts(keys \ {key})

\* C12: get_balance(address, family) is the sum of amount over the family's records
\* with recipient == address minus the sum over those with sender == address, a
\* record that matches both roles being counted in both.
C12_BalanceIsCreditsMinusDebits ==
    last.op = "get_balance" =>
        LET family == RecordsOfFamily(last.arg.tx_family)
            credits == {k \in family : ledger_db[k]["recipient"] = last.arg.address}
            debits == {k \in family : ledger_db[k]["sender"] = last.arg.address}
        IN  last.result = SumAmounts(credits) - SumAmounts(debits)

\* a step in which the orchestrator returned from, or raised in, creating a transaction
FlowCreateStep ==
    last' # last /\ last'.op \in {"create_and_encrypt_transaction", "main"}

\* C13: after the orchestrator has created and stored one transaction from S to R
\* with amount a in family F on an empty ledger, get_balance(R, F) is +a and
\* get_balance(S, F) is -a.
C13_FlowThenBalance ==
    [][(FlowCreateStep /\ ledger_db = EmptyDict) =>
        LET tx == last'.arg
        IN  /\ ~GetBalanceRaises(ledger_db', tx.header.recipient, tx.tx_family)
            /\ get_balance_of(ledger_db', tx.header.recipient, tx.tx_family)
                  = tx.header.amount
            /\ get_balance_of(ledger_db', tx.header.sender, tx.tx_family)
                  = 0 - tx.header.amount
      ]_vars

\* C14: a record stored under one family is never counted by get_balance for
\* another family and never returned by get_all_transactions for another family.
C14_FamiliesPartitionKeys ==
    /\ last.op = "get_all_transactions" =>
          \A tx \in last.result : tx["TX_FAMILY"] = last.arg.tx_family
    /\ last.op = "get_balance" =>
          last.result =
              get_balance_of([k \in RecordsOfFamily(last.arg.tx_family) |-> ledger_db[k]],
                             last.arg.address, last.arg.tx_family)

\* C15: once the orchestrator has built a transaction and handed it to
\* save_transaction, get_transaction(tx.tx_id, tx.tx_family) returns that transaction.
C15_SaveGetRoundTrip ==
    last.op \in {"create_and_encrypt_transaction", "main"} =>
        /\ ledger_key(last.arg.tx_family, last.arg.tx_id) \in DOMAIN ledger_db
        /\ get_transaction(last.arg.tx_id, last.arg.tx_family) = last.arg

\* C16: completeness of the range proof.  When create_range_proof is called
\* with min <= value <= max under the configured backend, it returns a proof,
\* and validate_range_proof accepts that proof for the same commitment, min
\* and max.
C16_RangeProofComplete ==
    (/\ last.op = "create_range_proof"
     /\ last.backend = BULLETPROOF_IMPLEMENTATION
     /\ last.min <= last.value /\ last.value <= last.max)
    => /\ last.raised = "None"
       /\ validate_range_proof(last.commitment, last.proof, last.min, last.max) = "True"

\* C17: no proof of a false statement.  When create_range_proof is called
\* with a value outside [min, max] under the configured backend, it raises the
\* out-of-range error and returns no proof.
C17_NoProofOutOfRange ==
    (/\ last.op = "create_range_proof"
     /\ last.backend = BULLETPROOF_IMPLEMENTATION
     /\ ~(last.min <= last.value /\ last.value <= last.max))
    => /\ last.raised = "ValueError"
       /\ last.proof = <<>>

C19_OpeningNeverFalselyTrue ==
    (/\ last.op = "verify_commitment"
     /\ <<last.vvalue, last.vrandom>> # <<last.value, last.random_factor>>)
    => last.result = "False"

\* C20: signing and verification agree.  A transaction made by
\* create_transaction with private key k is accepted by validate_transaction
\* with the public key of k, before and after it has been anchored.
C20_SignVerifyRoundTrip ==
    last.op = "validate_transaction" => last.result = "True"

\* C21: verify_signature rejects without raising.  For a malformed signature
\* (not hexadecimal, wrong length, empty) and for a well-formed signature that
\* was not made over this transaction with the key of this public key,
\* verify_signature returns False.
C21_VerifyNeverRaises ==
    (/\ last.op = "verify_signature"
     /\ \/ last.signature \in MalformedSignatures
        \/ last.signature # sign_transaction(last.tx, last.public_key[2]))
    => last.result = "False"

\* the header of tx is not the one its tx_id and its signature were made for
HeaderTampered(tx) ==
    \/ tx["tx_id"] # sha256_json(tx["header"])
    \/ tx["signature"][2]["header"] # tx["header"]

\* C22: a change to a header field is detected.  Every validator returns
\* False for a transaction whose tx_id is no longer the content hash of its
\* header or whose signature was made over another header.
C22_HeaderChangeDetected ==
    (/\ last.op \in {"validate_transaction", "TransactionEmulator.validate_transaction",
                     "validate_and_anchor_transaction"}
     /\ HeaderTampered(last.tx))
    => last.result = "False"

\* C23: an amount outside [0, MAX_TRANSACTION_AMOUNT] does not reach the
\* ledger write.  No body the orchestrator hands to save_transaction carries an
\* amount outside the legal range.
C23_OutOfRangeNotStored ==
    \A body \in save_calls :
        "header" \in DOMAIN body
        => /\ 0 <= body["header"]["amount"]
           /\ body["header"]["amount"] <= MAX_TRANSACTION_AMOUNT

\* C24: anchoring at time t with window W leaves a notary record for the
\* transaction with anchored_at = t, with expires_at = t + W (seconds) when
\* W > 0, and without expires_at when W = 0.
C24_AnchorRecordExpiry ==
    last.op = "anchor_transaction"
    => \E k \in DOMAIN notary_db :
          LET content == notary_db[k]["content"]
              W == last.arg.cancellation_window
          IN  /\ content["tx_id"] = last.arg.tx_id
              /\ "anchored_at" \in DOMAIN content
              /\ content["anchored_at"] = now
              /\ W > 0 => ("expires_at" \in DOMAIN content
                           /\ content["expires_at"] = now + W)
              /\ W = 0 => "expires_at" \notin DOMAIN content

\* C25: stored precedes anchored.  Every anchor in the notary storage belongs
\* to a transaction that is in the ledger storage (the emulator never removes
\* a ledger entry, so one stored at anchoring time is still stored).
C25_StoredPrecedesAnchored ==
    \A tx_id \in DOMAIN notary_storage : tx_id \in DOMAIN ledger_storage

\* C26: a stored transaction is not mutated.  A step of anchor_transaction,
\* validate_transaction or cancel_transaction leaves every key of the ledger
\* storage in place and the record under it with the same fields and values.
C26_StoredNeverMutated ==
    [][(EmulatorAnchor \/ EmulatorAnchorCaller \/ EmulatorCancel \/ EmulatorValidate)
        => \A k \in DOMAIN ledger_storage :
              /\ k \in DOMAIN ledger_storage'
              /\ heap'[ledger_storage'[k]] = heap[ledger_storage[k]]
      ]_vars

\* C27: failure kinds are distinguishable.  A cancel_transaction that fails
\* because the window has passed on an existing anchor reports something other
\* than what a cancel_transaction of an unknown tx_id reports.
C27_FailureKindsDistinct ==
    (/\ last.op = "cancel_transaction"
     /\ last.result # "True"
     /\ last.arg \in DOMAIN notary_storage)
    => last.result # (IF CancelAllowed(UnknownTxId) THEN "True" ELSE "False")

\* C28: the commitment is checked.  The emulator's validate_transaction and
\* validate_and_anchor_transaction return False for a transaction whose
\* commitment was not made for its header amount, and do not anchor it.
C28_CommitmentChecked ==
    (/\ last.op \in {"TransactionEmulator.validate_transaction",
                     "validate_and_anchor_transaction"}
     /\ "amount" \in DOMAIN last.tx["header"]
     /\ last.tx["commitment"][2] # last.tx["header"]["amount"])
    => /\ last.result = "False"
       /\ ~last.anchored

C30_EncryptDecryptRoundTrip ==
    (/\ last.op = "decrypt_value"
     /\ <<last.public_key, last.private_key>> \in generate_paillier_keypair)
    => last.result = [value |-> last.value]

C30_Witness ==
    /\ last.op = "decrypt_value"
    /\ <<last.public_key, last.private_key>> \in generate_paillier_keypair
    /\ last.value = -max_int(last.public_key)
    /\ last.encrypted.ciphertext # encode(last.public_key, last.value)
    /\ last.result = [value |-> last.value]

\* C31: range-proof verification always yields a boolean.  For every input
\* that does not match the proof, a verification range that does not contain
\* the commitment included, validate_range_proof / verify_bulletproof returns
\* False and does not raise.
C31_VerifyYieldsBoolean ==
    (/\ last.op \in {"validate_range_proof", "verify_bulletproof"}
     /\ <<last.vcommitment, last.vmin, last.vmax>> # <<last.commitment, last.min, last.max>>)
    => last.verdict = "False"

\* C32: backend selection never falls back silently.  When the configured
\* backend is not available (dalek without HAS_DALEK, fastecdsa without the
\* library) or the name is unknown, generate_bulletproof and verify_bulletproof
\* raise and no other backend is called; PSIScheme raises at construction for
\* an unknown scheme type.
BackendUnavailable ==
    \/ last.implementation = "dalek" /\ ~last.has_dalek
    \/ last.implementation = "fastecdsa" /\ ~last.fastecdsa_installed
    \/ last.implementation \notin {"dalek", "fastecdsa", "emulation"}

C32_NoSilentFallback ==
    /\ (/\ last.op \in {"core.generate_bulletproof", "core.verify_bulletproof"}
        /\ BackendUnavailable)
       => /\ last.raised \in {"ValueError", "ImportError"}
          /\ last.invoked \in {"none", last.implementation}
    /\ (last.op = "PSIScheme" /\ last.scheme \notin {"paillier", "schnorr"})
       => last.raised = "ValueError"

C32_Witness ==
    /\ last.op = "core.verify_bulletproof"
    /\ last.implementation = "dalek"
    /\ ~last.has_dalek
    /\ last.fastecdsa_installed
    /\ last.min <= last.commitment.n /\ last.commitment.n <= last.max
    /\ last.raised = "ValueError"
    /\ last.invoked = "none"

\* C33: validate_and_anchor_transaction returns True only when the signature
\* check and the commitment check both passed and the transaction was
\* anchored; when the signature does not verify under the given key or the
\* commitment does not match the amount, it returns False and anchors nothing.
SignatureCheckPasses(tx, public_key) ==
    /\ "signature" \in DOMAIN tx
    /\ VerifySignatureCall(<<tx, public_key, tx["signature"]>>) = "True"

CommitmentCheckPasses(tx) ==
    /\ "amount" \in DOMAIN tx["header"]
    /\ tx["commitment"][2] = tx["header"]["amount"]

C33_ValidateAndAnchorResult ==
    last.op = "validate_and_anchor_transaction"
    => /\ last.result = "True"
          => /\ SignatureCheckPasses(last.tx, last.public_key)
             /\ CommitmentCheckPasses(last.tx)
             /\ last.anchored
       /\ (~SignatureCheckPasses(last.tx, last.public_key) \/ ~CommitmentCheckPasses(last.tx))
          => /\ last.result = "False"
             /\ ~last.anchored

\* C34: the structure check comes first.  validate_transaction returns False
\* for every transaction whose header lacks one of sender, recipient,
\* timestamp, amount, without calling the signature verification; and
\* compliance_check returns False for every transaction that fails
\* validate_tx_structure, before any amount or list check.
C34_StructureCheckFirst ==
    /\ (/\ last.op = "validate_transaction"
        /\ ~(HeaderFields \subseteq DOMAIN last.tx["header"]))
       => /\ last.result = "False"
          /\ last.calls = <<"structure">>
    /\ (last.op = "compliance_check" /\ ~validate_tx_structure(last.tx))
       => /\ last.result = "False"
          /\ last.calls = <<"validate_tx_structure">>

C34_Witness ==
    /\ last.op = "validate_transaction"
    /\ DOMAIN last.tx["header"] = HeaderFields \ {"amount"}
    /\ last.result = "False"
    /\ last.calls = <<"structure">>

\* C35: every store handle and store transaction an operation opens is
\* released on every exit path.  After an operation of LedgerDB or NotaryDB,
\* or data.transaction.create_transaction, has returned or raised, no store
\* transaction is open and no store handle it opened is unclosed.
C35_StoreResourcesReleased ==
    last.op # "init"
    => /\ OpenTransactions(last.events) = 0
       /\ OpenHandles(last.events) = 0

\* C36: create_commitment uses a supplied blinding factor as given, 0
\* included.  When the caller supplies random_factor, the returned factor
\* equals it and the commitment is the one of (value, random_factor).
C36_SuppliedBlindingUsed ==
    (last.op = "create_commitment" /\ last.given)
    => /\ last.random_factor = last.supplied
       /\ last.commitment = Commit(PedersenG, last.value, PedersenG, last.supplied)

\* C37: re-anchoring cannot extend a cancellation window.  A call of
\* anchor_transaction on a transaction that already has an anchor leaves the
\* anchoring time of that anchor as it was, and the transaction keeps a single
\* anchor.
C37_ReanchorKeepsAnchoredAt ==
    [][\A tx_id \in DOMAIN notary_storage :
          (last'.op = "anchor_transaction" /\ last'.arg = tx_id)
          => /\ tx_id \in DOMAIN notary_storage'
             /\ heap'[notary_storage'[tx_id]]["anchored"]
                    = heap[notary_storage[tx_id]]["anchored"]
      ]_vars

\* C38: get and list agree on liveness.  At every time and for every content
\* of the notary store, get_notary_record returns a record exactly when
\* list_notary_records() with include_expired=False contains it, the instant
\* now = expires_at included.
C38_GetAndListAgree ==
    \A record_key \in DOMAIN notary_db :
        get_notary_record_returns(record_key)
        <=> notary_db[record_key] \in list_notary_records(FALSE)

C38_Witness ==
    /\ last.op = "list_notary_records"
    /\ ~last.arg
    /\ last.result = list_notary_records(FALSE)
    /\ \E record_key \in DOMAIN notary_db :
          /\ "expires_at" \in DOMAIN notary_db[record_key]
          /\ notary_db[record_key]["expires_at"] = now
          /\ get_notary_record_returns(record_key)
          /\ notary_db[record_key] \in last.result
    /\ \E record_key \in DOMAIN notary_db :
          /\ NotaryExpired(notary_db[record_key])
          /\ notary_db[record_key] \notin last.result

\* a step in which cancel_transaction returned
CancelStep == last' # last /\ last'.op = "cancel_transaction"

\* C3: a cancel at time t of the anchor made at t0 returns True and removes the
\* anchor record exactly when the anchor exists and t - t0 <= window; otherwise it
\* returns the failure value and leaves the notary storage as it was.
C3_CancelWithinWindow ==
    [][CancelStep =>
        LET tx_id == last'.arg
            present == tx_id \in DOMAIN notary_storage
            within == /\ present
                      /\ now - heap[notary_storage[tx_id]]["anchored"]
                            <= EmulatorCancellationWindow
        IN  /\ within <=> last'.result = "True"
            /\ within => tx_id \notin DOMAIN notary_storage'
            /\ ~within => (last'.result = "False" /\ notary_storage' = notary_storage)
      ]_vars

\* one cancel has succeeded, and the last cancel was refused for an anchor that
\* exists and is older than the window
C3_Witness ==
    /\ cancelled # {}
    /\ last.op = "cancel_transaction"
    /\ last.result = "False"
    /\ last.arg \in DOMAIN notary_storage
    /\ now - heap[notary_storage[last.arg]]["anchored"] > EmulatorCancellationWindow

\* C5: a cancel_transaction call, successful or not, leaves the ledger's keys and
\* the record under each key as they were.
C5_CancelKeepsLedger ==
    [][CancelStep =>
        /\ ledger_storage' = ledger_storage
        /\ \A k \in DOMAIN ledger_storage :
              heap'[ledger_storage[k]] = heap[ledger_storage[k]]
      ]_vars

\* a cancel has just removed the anchor of a transaction that the ledger holds
C5_Witness ==
    /\ last.op = "cancel_transaction"
    /\ last.result = "True"
    /\ last.arg \notin DOMAIN notary_storage
    /\ last.arg \in DOMAIN ledger_storage

\* C6: an anchor that was cancelled is never present again, and an anchor that
\* has outlived its window is never a live anchor again.
C6_TerminalAnchors ==
    /\ \A tx_id \in cancelled : tx_id \notin DOMAIN notary_storage
    /\ \A tx_id \in expired :
          ~(tx_id \in DOMAIN notary_storage /\ ~OutsideWindow(tx_id, now))

ScreenOps == {"verify_transaction", "anchor_compliance_check", "compliance_check"}

\* the blacklist and the whitelist the screen of the last operation consults
BlacklistOf(op) == IF op = "verify_transaction" THEN blacklist_db ELSE get_blacklist_addresses

WhitelistOf(op) == IF op = "verify_transaction" THEN whitelist_db ELSE get_whitelist_addresses

\* C9: a screen of a transaction whose sender or recipient is on the blacklist
\* returns False, at every level and under either scheme.
C9_BlacklistedIsNonCompliant ==
    (/\ last.op \in ScreenOps
     /\ \/ Plaintext(last.arg.sender) \in BlacklistOf(last.op)
        \/ Plaintext(last.arg.recipient) \in BlacklistOf(last.op))
    => last.result = "False"

\* C10: at the advanced level a screen of a transaction whose sender or recipient
\* is not on the whitelist returns False.
C10_WhitelistMandatory ==
    (/\ last.op \in ScreenOps
     /\ last.level = COMPLIANCE_LEVEL_ADVANCED
     /\ \/ Plaintext(last.arg.sender) \notin WhitelistOf(last.op)
        \/ Plaintext(last.arg.recipient) \notin WhitelistOf(last.op))
    => last.result = "False"

====
